---- MODULE Spec2Model ----
(***************************************************************************)
(* A model of colabfold_analysis.py: the contact detector                  *)
(* (get_contacts_from_structure, get_contacts), the interface statistics   *)
(* (calculate_interface_statistics, summarize_interface_statistics), the   *)
(* interface score (get_pdockq_elofsson), the per-complex loop             *)
(* (analyze_complexes) and the folder driver (analyze_folder, distribute). *)
(*                                                                         *)
(* Units.  Coordinates and distance cutoffs are whole Angstroms; a         *)
(* reported 'distance' (rounded to one decimal by the code) is kept in     *)
(* tenths.  pLDDT values are whole numbers.  PAE matrix cells are whole    *)
(* numbers; the combined 'pae' of a contact and every statistic the code   *)
(* rounds to one decimal are kept in tenths.  Scores that the code rounds  *)
(* to three decimals are kept in thousandths; the unrounded per-model      *)
(* means are kept as fractions [num, den].  Only the calls of               *)
(* calculate_interface_statistics on its own take contacts measured more   *)
(* finely: plddts in tenths, pae, distance and statistics in hundredths.   *)
(***************************************************************************)
EXTENDS Integers, Sequences, FiniteSets, TLC

VARIABLES
    \* ---- one call of get_contacts --------------------------------------
    pc,                 \* position in get_contacts
    pdb_filename,       \* the structure file: its name's model tag and its lines
    pae_filename,       \* the matrix file (or the empty name: ignore the PAE)
    params,             \* max_distance, min_plddt, max_pae, pae_mode, valid_aas
    structure,          \* chains / residues / N_coords built by the parser
    contacts,           \* geometric contacts (get_contacts_from_structure)
    pae_reads,          \* matrix cells read so far: <<a_ix pair, flat offset>>
    filtered_contacts,  \* the dict get_contacts returns
    error,              \* "" or the exception the call raised
    \* ---- one call of summarize_interface_statistics ---------------------
    spc,                \* "idle", "start" or "done"
    interfaces,         \* its argument: model_num -> chain pair -> contact_id -> contact
    stats,              \* the dict it returns
    \* ---- analyze_folder and analyze_complexes ---------------------------
    fpc,                \* position: "idle", "start", "complex", "model", "merge",
                        \* "done", or "crashed" (an exception left analyze_folder)
    data_folder,        \* the input: folder name, files, .done markers, options
    complex_name_lists, \* the groups made by distribute
    index,              \* position of the for loop in 'complexes'
    zipped,             \* the (pdb, pae) pairs of the current complex still to do
    interface_contacts, \* model_num -> contacts of the current complex
    best_interface_stats, \* None or the if_stats of the best model so far
    summary_stats,      \* complex_name -> stats
    all_interface_stats, \* the rows of the interfaces report
    all_contacts,       \* the rows of the contacts report
    output_folder,      \* file name -> rows, the reports written so far
    exception,          \* "" or the exception that left analyze_folder
    visited,            \* the names the for loop has started on, in order
    \* ---- one call of get_pdockq_elofsson --------------------------------
    qpc,                \* "idle", "start", "returned" or "raised"
    pdb_filepath,       \* its first argument: the structure file
    if_chains,          \* its second argument 'chains': the two chain ids
    pdockq,             \* the score it returns, in thousandths
    \* ---- one call of distribute -----------------------------------------
    dpc,                \* "idle", "start", "returned" or "raised"
    items,              \* its first argument 'lst'
    bins,               \* its second argument 'n_bins'
    groups,             \* the lists it returns, every item with its position
    \* ---- one call of calculate_interface_statistics ---------------------
    ipc,                \* "idle", "start" or "returned"
    interface,          \* its argument 'contacts', measured in hundredths
    data                \* the statistics it returns, in hundredths

cvars == <<pc, pdb_filename, pae_filename, params, structure, contacts,
           pae_reads, filtered_contacts, error>>

svars == <<spc, interfaces, stats>>

bvars == <<fpc, data_folder, complex_name_lists, index, zipped, interface_contacts,
           best_interface_stats, summary_stats, all_interface_stats, all_contacts,
           output_folder, exception, visited>>

qvars == <<qpc, pdb_filepath, if_chains, pdockq>>

dvars == <<dpc, items, bins, groups>>

ivars == <<ipc, interface, data>>

vars == <<cvars, svars, bvars, qvars, dvars, ivars>>

----------------------------------------------------------------------------
\* Generic helpers

Min(a, b) == IF a < b THEN a ELSE b
Max(a, b) == IF a > b THEN a ELSE b

RECURSIVE SumSeq(_)
SumSeq(s) == IF s = <<>> THEN 0 ELSE Head(s) + SumSeq(Tail(s))

RECURSIVE Concat(_)
\* the concatenation of a sequence of sequences
Concat(ss) == IF ss = <<>> THEN <<>> ELSE Head(ss) \o Concat(Tail(ss))

\* row-major list of the index pairs of an n1 x n2 array (numpy's np.where order)
RowMajor(n1, n2) ==
    [k \in 1..(n1 * n2) |-> <<((k - 1) \div n2) + 1, ((k - 1) % n2) + 1>>]

----------------------------------------------------------------------------
\* Program constants

\* the 20 three-letter codes of aa_3c_to_1c
aa_3c_to_1c ==
    [ALA |-> "A", CYS |-> "C", ASP |-> "D", GLU |-> "E", PHE |-> "F",
     GLY |-> "G", HIS |-> "H", ILE |-> "I", LYS |-> "K", LEU |-> "L",
     MET |-> "M", ASN |-> "N", PRO |-> "P", GLN |-> "Q", ARG |-> "R",
     SER |-> "S", THR |-> "T", VAL |-> "V", TRP |-> "W", TYR |-> "Y"]

\* get_contacts_from_structure: d2_n_cutoff = (max_distance + 20) ** 2
BROAD_MARGIN == 20

\* get_closest_atoms: min_d2 = 1e6
MIN_D2_INIT == 1000000

\* get_contacts: valid model numbers are 1..5
MIN_MODEL_NUM == 1
MAX_MODEL_NUM == 5

----------------------------------------------------------------------------
\* File names

\* A file name is modelled by what the code reads from it: whether it is the
\* empty string, and the digits that follow "model_" in it (NoTag when
\* "model_" does not occur in the name).
NoTag == <<-1>>
EmptyName == [empty |-> TRUE, tag |-> NoTag, lines |-> <<>>, rows |-> <<>>]

RECURSIVE DigitsToInt(_)
\* int("...") of a string of decimal digits
DigitsToInt(ds) ==
    IF ds = <<>> THEN 0
    ELSE 10 * DigitsToInt(SubSeq(ds, 1, Len(ds) - 1)) + ds[Len(ds)]

\* get_af_model_num: 0 when "model_" is not in the name, else the number
\* after the first "model_"
get_af_model_num(filename) ==
    IF filename.tag = NoTag THEN 0 ELSE DigitsToInt(filename.tag)

----------------------------------------------------------------------------
\* Geometry

\* dist2: squared Euclidean distance of two 3-vectors
dist2(v1, v2) ==
    (v1[1] - v2[1]) * (v1[1] - v2[1]) + (v1[2] - v2[2]) * (v1[2] - v2[2])
      + (v1[3] - v2[3]) * (v1[3] - v2[3])

\* atom_from_pdb_line: the atom's type and coordinates.  'ln' (the number of
\* the line the atom was read from) is a ghost field the code does not keep.
atom_from_pdb_line(atom_line, k) ==
    [type |-> atom_line.atm, xyz |-> atom_line.xyz, ln |-> k]

NoAtom == [type |-> "None", xyz |-> <<0, 0, 0>>, ln |-> 0]

RECURSIVE ClosestScan(_, _, _, _, _)
\* the double loop of get_closest_atoms, in the code's order: a1 outer, a2
\* inner, a strictly smaller d2 replaces the current minimum
ClosestScan(as1, as2, i, j, best) ==
    IF i > Len(as1) THEN best
    ELSE IF j > Len(as2) THEN ClosestScan(as1, as2, i + 1, 1, best)
    ELSE LET d2 == dist2(as1[i].xyz, as2[j].xyz)
             nb == IF d2 < best[1] THEN <<d2, <<as1[i], as2[j]>>>> ELSE best
         IN  ClosestScan(as1, as2, i, j + 1, nb)

\* faulty variant: the outer loop stops after the first atom of res1
get_closest_atoms_first_only(res1, res2) ==
    ClosestScan(SubSeq(res1.atoms, 1, 1), res2.atoms, 1, 1,
                <<MIN_D2_INIT, <<NoAtom, NoAtom>>>>)

\* get_closest_atoms: <<min_d2, <<atom of res1, atom of res2>>>>
get_closest_atoms(res1, res2) ==
    ClosestScan(res1.atoms, res2.atoms, 1, 1, <<MIN_D2_INIT, <<NoAtom, NoAtom>>>>)

\* round(math.sqrt(min_d2), 1), in tenths: the integer t nearest to
\* 10*sqrt(min_d2) (no tie exists: (2t+1)^2 is odd, 400*min_d2 is even)
RoundSqrt10(min_d2, bound) ==
    IF min_d2 = 0 THEN 0
    ELSE CHOOSE t \in 0..(10 * bound) :
            /\ (2 * t - 1) * (2 * t - 1) <= 400 * min_d2
            /\ 400 * min_d2 < (2 * t + 1) * (2 * t + 1)

----------------------------------------------------------------------------
\* get_contacts_from_structure: the parser (lines 340-393)

NoChain == "None"
Unbound == <<>>

ParseInit ==
    [err |-> "", last_chain |-> NoChain, abs_res_index |-> 0, chain_index |-> 0,
     chains |-> <<>>, residues |-> <<>>, N_coords |-> <<>>, residue |-> Unbound]

\* faulty variant: abs_res_index is incremented after the filters, so that it
\* counts the residues kept
ParseLine_index_after_filters(st, atom_line, k, min_plddt, valid_aas) ==
    IF st.err # "" THEN st
    ELSE IF atom_line.rec # "ATOM" THEN st
    ELSE IF atom_line.bfactor < min_plddt THEN st
    ELSE IF atom_line.res \notin DOMAIN aa_3c_to_1c THEN [st EXCEPT !.err = "KeyError"]
    ELSE IF valid_aas # {} /\ aa_3c_to_1c[atom_line.res] \notin valid_aas THEN st
    ELSE
      LET is_nitrogen == atom_line.atm = "N"
          abs_res_index == IF is_nitrogen THEN st.abs_res_index + 1
                           ELSE st.abs_res_index
          s1 == [st EXCEPT !.abs_res_index = abs_res_index]
          atom == atom_from_pdb_line(atom_line, k)
          chain == atom_line.chain
          s2 == IF is_nitrogen /\ chain # s1.last_chain
                THEN [s1 EXCEPT !.chain_index = @ + 1,
                                !.last_chain = chain,
                                !.N_coords = Append(@, <<>>),
                                !.residues = Append(@, <<>>),
                                !.chains = Append(@, chain)]
                ELSE s1
          ci == s2.chain_index
          new_res == [chain |-> chain, atoms |-> <<>>, c_ix |-> atom_line.c_ix,
                      a_ix |-> abs_res_index, type |-> aa_3c_to_1c[atom_line.res],
                      plddt |-> atom_line.bfactor]
          s3 == IF is_nitrogen
                THEN [s2 EXCEPT !.residues[ci] = Append(@, new_res),
                                !.N_coords[ci] = Append(@, atom.xyz),
                                !.residue = <<ci, Len(s2.residues[ci]) + 1>>]
                ELSE s2
      IN  IF s3.residue = Unbound
          THEN [s3 EXCEPT !.err = "UnboundLocalError"]
          ELSE [s3 EXCEPT
                  !.residues[s3.residue[1]][s3.residue[2]].atoms = Append(@, atom)]

\* the body of the loop over the file's lines, for line number k
ParseLine(st, atom_line, k, min_plddt, valid_aas) ==
    IF st.err # "" THEN st
    ELSE IF atom_line.rec # "ATOM" THEN st
    ELSE
      LET is_nitrogen == atom_line.atm = "N"
          abs_res_index == IF is_nitrogen THEN st.abs_res_index + 1
                           ELSE st.abs_res_index
          s1 == [st EXCEPT !.abs_res_index = abs_res_index]
          bfactor == atom_line.bfactor
      IN
      IF bfactor < min_plddt THEN s1
      ELSE IF atom_line.res \notin DOMAIN aa_3c_to_1c
           THEN [s1 EXCEPT !.err = "KeyError"]
      ELSE
        LET aa_type == aa_3c_to_1c[atom_line.res] IN
        IF valid_aas # {} /\ aa_type \notin valid_aas THEN s1
        ELSE
          LET atom == atom_from_pdb_line(atom_line, k)
              chain == atom_line.chain
              newchain == chain # s1.last_chain
              \* a new chain: one more row in chains, residues and N_coords
              s2 == IF is_nitrogen /\ newchain
                    THEN [s1 EXCEPT !.chain_index = @ + 1,
                                    !.last_chain = chain,
                                    !.N_coords = Append(@, <<>>),
                                    !.residues = Append(@, <<>>),
                                    !.chains = Append(@, chain)]
                    ELSE s1
              ci == s2.chain_index
              new_res == [chain |-> chain, atoms |-> <<>>, c_ix |-> atom_line.c_ix,
                          a_ix |-> abs_res_index, type |-> aa_type,
                          plddt |-> bfactor]
              s3 == IF is_nitrogen
                    THEN [s2 EXCEPT !.residues[ci] = Append(@, new_res),
                                    !.N_coords[ci] = Append(@, atom.xyz),
                                    !.residue = <<ci, Len(s2.residues[ci]) + 1>>]
                    ELSE s2
          IN
          \* residue['atoms'].append(atom): 'residue' is whatever residue was
          \* created last, and is unbound before the first one
          IF s3.residue = Unbound
          THEN [s3 EXCEPT !.err = "UnboundLocalError"]
          ELSE [s3 EXCEPT
                  !.residues[s3.residue[1]][s3.residue[2]].atoms = Append(@, atom)]

RECURSIVE ParseLines(_, _, _, _, _)
ParseLines(st, lines, k, min_plddt, valid_aas) ==
    IF k > Len(lines) THEN st
    ELSE ParseLines(ParseLine(st, lines[k], k, min_plddt, valid_aas),
                    lines, k + 1, min_plddt, valid_aas)

\* the structure the parser builds from a file
ParseStructure(lines, min_plddt, valid_aas) ==
    ParseLines(ParseInit, lines, 1, min_plddt, valid_aas)

----------------------------------------------------------------------------
\* get_contacts_from_structure: the chain-pair search (lines 395-434)

\* faulty variant: the broad phase uses the contact cutoff itself, without the margin
index_pairs_no_margin(st, i, i2, max_distance) ==
    SelectSeq(RowMajor(Len(st.N_coords[i]), Len(st.N_coords[i2])),
              LAMBDA p : dist2(st.N_coords[i][p[1]], st.N_coords[i2][p[2]])
                            < max_distance * max_distance)

\* index_pairs: the residue pairs of chains i, i2 whose backbone nitrogens are
\* closer than the relaxed cutoff, in np.where's row-major order
index_pairs(st, i, i2, max_distance) ==
    LET d2_n_cutoff == (max_distance + BROAD_MARGIN) * (max_distance + BROAD_MARGIN)
        chain_1_coords == st.N_coords[i]
        chain_2_coords == st.N_coords[i2]
    IN  SelectSeq(RowMajor(Len(chain_1_coords), Len(chain_2_coords)),
                  LAMBDA p : dist2(chain_1_coords[p[1]], chain_2_coords[p[2]])
                                < d2_n_cutoff)

\* the contact appended for residues r1, r2 whose closest atoms are 'closest'
contact_record(r1, r2, closest, max_distance) ==
    [distance |-> RoundSqrt10(closest[1], max_distance),
     aa1 |-> [chain |-> r1.chain, type |-> r1.type, c_ix |-> r1.c_ix,
              a_ix |-> r1.a_ix, atom |-> closest[2][1].type, plddt |-> r1.plddt],
     aa2 |-> [chain |-> r2.chain, type |-> r2.type, c_ix |-> r2.c_ix,
              a_ix |-> r2.a_ix, atom |-> closest[2][2].type, plddt |-> r2.plddt]]

RECURSIVE NarrowPhase_inclusive(_, _, _, _, _, _)
\* faulty variant: closest atoms exactly max_distance apart are accepted
NarrowPhase_inclusive(st, i, i2, pairs, k, max_distance) ==
    IF k > Len(pairs) THEN <<>>
    ELSE LET r1 == st.residues[i][pairs[k][1]]
             r2 == st.residues[i2][pairs[k][2]]
             closest == get_closest_atoms(r1, r2)
             d2_cutoff == max_distance * max_distance
             rest == NarrowPhase_inclusive(st, i, i2, pairs, k + 1, max_distance)
         IN  IF closest[1] <= d2_cutoff
             THEN <<contact_record(r1, r2, closest, max_distance)>> \o rest
             ELSE rest

RECURSIVE NarrowPhase(_, _, _, _, _, _)
\* the loop over index_pairs: a candidate pair is kept when its closest atoms
\* are strictly closer than max_distance
NarrowPhase(st, i, i2, pairs, k, max_distance) ==
    IF k > Len(pairs) THEN <<>>
    ELSE LET r1 == st.residues[i][pairs[k][1]]
             r2 == st.residues[i2][pairs[k][2]]
             closest == get_closest_atoms(r1, r2)
             d2_cutoff == max_distance * max_distance
             rest == NarrowPhase(st, i, i2, pairs, k + 1, max_distance)
         IN  IF closest[1] < d2_cutoff
             THEN <<contact_record(r1, r2, closest, max_distance)>> \o rest
             ELSE rest

\* the contacts found between chain i (first) and chain i2 (second)
chain_pair_contacts(st, i, i2, max_distance) ==
    NarrowPhase(st, i, i2, index_pairs(st, i, i2, max_distance), 1, max_distance)

\* the (i, i2) iterations of the two chain loops, in order
chain_pairs(num_chains, within_chain) ==
    SelectSeq(RowMajor(num_chains, num_chains),
              LAMBDA p : IF within_chain THEN p[2] >= p[1] ELSE p[2] >= p[1] + 1)

\* the list of contacts found in a parsed structure
structure_contacts(st, max_distance, within_chain) ==
    LET cps == chain_pairs(Len(st.chains), within_chain)
    IN  Concat([k \in 1..Len(cps) |->
                  chain_pair_contacts(st, cps[k][1], cps[k][2], max_distance)])

\* faulty variant: the parser is run without the confidence threshold
get_contacts_from_structure_any_plddt(pdb, max_distance, min_plddt, valid_aas, within_chain) ==
    LET st == ParseStructure(pdb.lines, 0, valid_aas)
    IN  [err |-> st.err, structure |-> st,
         contacts |-> IF st.err # "" THEN <<>>
                      ELSE structure_contacts(st, max_distance, within_chain)]

\* get_contacts_from_structure: the parsed structure, the contact list and
\* the exception raised while parsing, if any
get_contacts_from_structure(pdb, max_distance, min_plddt, valid_aas, within_chain) ==
    LET st == ParseStructure(pdb.lines, min_plddt, valid_aas)
    IN  [err |-> st.err, structure |-> st,
         contacts |-> IF st.err # "" THEN <<>>
                      ELSE structure_contacts(st, max_distance, within_chain)]

----------------------------------------------------------------------------
\* get_pae_values_from_json_file and the filter loop of get_contacts

\* int(math.sqrt(n))
IntSqrt(n) == CHOOSE k \in 0..n : k * k <= n /\ n < (k + 1) * (k + 1)

\* faulty variant: the length of the payload is not checked
get_pae_values_from_json_file_unchecked(pae) ==
    [err |-> "", pae_data |-> Concat(pae.rows)]

\* get_pae_values_from_json_file: the array of arrays flattened row by row;
\* the length must be a perfect square
get_pae_values_from_json_file(pae) ==
    LET pae_data == Concat(pae.rows)
    IN  IF Len(pae_data) # IntSqrt(Len(pae_data)) * IntSqrt(Len(pae_data))
        THEN [err |-> "ValueError: pAE values could not be parsed", pae_data |-> <<>>]
        ELSE [err |-> "", pae_data |-> pae_data]

\* the two flat (0-based) offsets of the pair's cells (x, y) and (y, x)
pae_index_1(total_aa_length, aa_indices) ==
    total_aa_length * (aa_indices[1] - 1) + aa_indices[2] - 1
\* faulty variant: the cell (y, x) is taken to be the cell (x, y)
pae_index_2_symmetric(total_aa_length, aa_indices) ==
    total_aa_length * (aa_indices[1] - 1) + aa_indices[2] - 1
pae_index_2(total_aa_length, aa_indices) ==
    total_aa_length * (aa_indices[2] - 1) + aa_indices[1] - 1

\* faulty variant: only the first offset is checked
pae_out_of_range_first_only(ix1, ix2, pae_data) ==
    ix1 >= Len(pae_data)

\* the bounds check made before the two cells are read
pae_out_of_range(ix1, ix2, pae_data) ==
    ix1 >= Len(pae_data) \/ ix2 >= Len(pae_data)

\* faulty variant: 'min' mode takes the larger of the two cells
combine_pae_max(pae_values, pae_mode) ==
    IF pae_mode = "avg" THEN 5 * (pae_values[1] + pae_values[2])
    ELSE 10 * Max(pae_values[1], pae_values[2])

\* the combined value of the two cells, in tenths: 0.5*(a+b) in 'avg' mode,
\* min(a, b) otherwise
combine_pae(pae_values, pae_mode) ==
    IF pae_mode = "avg" THEN 5 * (pae_values[1] + pae_values[2])
    ELSE 10 * Min(pae_values[1], pae_values[2])

EmptyDict == [x \in {} |-> 0]

\* d[k] = v of a Python dict
Put(d, k, v) == [x \in (DOMAIN d) \cup {k} |-> IF x = k THEN v ELSE d[x]]

FilterInit == [err |-> "", filtered |-> EmptyDict, reads |-> {}]

\* one iteration of 'for c in contacts'
FilterContact(acc, c, pae_data, total_aa_length, ignore_pae, max_pae, pae_mode, valid_aas, model_num) ==
    IF acc.err # "" THEN acc
    ELSE
      LET aas == <<c.aa1, c.aa2>>
          aa_indices == <<c.aa1.a_ix, c.aa2.a_ix>>
          ix1 == pae_index_1(total_aa_length, aa_indices)
          ix2 == pae_index_2(total_aa_length, aa_indices)
      IN
      IF ~ignore_pae /\ pae_out_of_range(ix1, ix2, pae_data)
      THEN [acc EXCEPT !.err = "ValueError: non-existant PAE values"]
      ELSE
        LET pae_values == IF ignore_pae THEN <<0, 0>>
                          ELSE <<pae_data[ix1 + 1], pae_data[ix2 + 1]>>
            pae_value == IF ignore_pae THEN 0 ELSE combine_pae(pae_values, pae_mode)
            reads == IF ignore_pae THEN acc.reads
                     ELSE acc.reads \cup {<<aa_indices, 1, ix1>>, <<aa_indices, 2, ix2>>}
            a1 == [acc EXCEPT !.reads = reads]
        IN
        \* pae_data[ix] of a Python list raises IndexError past its end
        IF ~ignore_pae /\ ix1 >= Len(pae_data)
        THEN [acc EXCEPT !.err = "IndexError"]
        ELSE IF ~ignore_pae /\ ix2 >= Len(pae_data)
        THEN [acc EXCEPT !.err = "IndexError",
                         !.reads = @ \cup {<<aa_indices, 1, ix1>>}]
        ELSE IF ~ignore_pae /\ pae_value > 10 * max_pae THEN a1
        ELSE IF valid_aas # {} /\ (aas[1].type \notin valid_aas
                                    \/ aas[2].type \notin valid_aas) THEN a1
        ELSE
          LET chain_contact_id == <<aas[1].chain, aas[2].chain>>
              contact_id == aa_indices
              inner == IF chain_contact_id \in DOMAIN a1.filtered
                       THEN a1.filtered[chain_contact_id] ELSE EmptyDict
              rec == [chains |-> <<aas[1].chain, aas[2].chain>>,
                      inchain_indices |-> <<aas[1].c_ix, aas[2].c_ix>>,
                      types |-> <<aas[1].type, aas[2].type>>,
                      pae |-> pae_value,
                      paes |-> pae_values,
                      plddts |-> <<aas[1].plddt, aas[2].plddt>>,
                      model |-> model_num,
                      distance |-> c.distance]
          IN [a1 EXCEPT !.filtered = Put(@, chain_contact_id, Put(inner, contact_id, rec))]

RECURSIVE FilterLoop(_, _, _, _, _, _, _, _, _, _)
FilterLoop(acc, cs, k, pae_data, total_aa_length, ignore_pae, max_pae, pae_mode, valid_aas, model_num) ==
    IF k > Len(cs) THEN acc
    ELSE FilterLoop(FilterContact(acc, cs[k], pae_data, total_aa_length, ignore_pae,
                                  max_pae, pae_mode, valid_aas, model_num),
                    cs, k + 1, pae_data, total_aa_length, ignore_pae, max_pae,
                    pae_mode, valid_aas, model_num)

\* faulty variant: only the upper end of the range is checked
model_num_error_upper_only(pdb, pae) ==
    LET model_num == get_af_model_num(pdb)
        ignore_pae == pae.empty
    IN  IF model_num > MAX_MODEL_NUM
        THEN "ValueError: invalid model number"
        ELSE IF ~ignore_pae /\ model_num # get_af_model_num(pae)
        THEN "ValueError: File mismatch"
        ELSE ""

\* the exception raised by the checks get_contacts makes on the two model
\* numbers before anything else, "" if none
model_num_error(pdb, pae) ==
    LET model_num == get_af_model_num(pdb)
        ignore_pae == pae.empty
    IN  IF model_num < MIN_MODEL_NUM \/ model_num > MAX_MODEL_NUM
        THEN "ValueError: invalid model number"
        ELSE IF ~ignore_pae /\ model_num # get_af_model_num(pae)
        THEN "ValueError: File mismatch"
        ELSE ""

\* faulty variant: the empty file name is not taken to mean 'no matrix'
filter_contacts_never_ignore(cs, pdb, pae, max_pae, pae_mode, valid_aas) ==
    LET loaded == get_pae_values_from_json_file(pae)
        total_aa_length == IntSqrt(Len(loaded.pae_data))
    IN  IF Len(cs) < 1 THEN FilterInit
        ELSE IF loaded.err # "" THEN [FilterInit EXCEPT !.err = loaded.err]
        ELSE FilterLoop(FilterInit, cs, 1, loaded.pae_data, total_aa_length,
                        FALSE, max_pae, pae_mode, valid_aas,
                        get_af_model_num(pdb))

\* What get_contacts does after the geometric contacts are known: nothing
\* when there are none, else load the matrix (unless ignored) and filter.
filter_contacts(cs, pdb, pae, max_pae, pae_mode, valid_aas) ==
    LET ignore_pae == pae.empty
        loaded == IF ignore_pae THEN [err |-> "", pae_data |-> <<>>]
                  ELSE get_pae_values_from_json_file(pae)
        total_aa_length == IF ignore_pae THEN 0 ELSE IntSqrt(Len(loaded.pae_data))
    IN  IF Len(cs) < 1 THEN FilterInit
        ELSE IF loaded.err # "" THEN [FilterInit EXCEPT !.err = loaded.err]
        ELSE FilterLoop(FilterInit, cs, 1, loaded.pae_data, total_aa_length,
                        ignore_pae, max_pae, pae_mode, valid_aas,
                        get_af_model_num(pdb))

\* get_contacts as a function: [err, filtered]
get_contacts(pdb, pae, max_distance, min_plddt, max_pae, pae_mode, valid_aas) ==
    LET e0 == model_num_error(pdb, pae)
        g == get_contacts_from_structure(pdb, max_distance, min_plddt, valid_aas, FALSE)
        f == filter_contacts(g.contacts, pdb, pae, max_pae, pae_mode, valid_aas)
    IN  IF e0 # "" THEN [err |-> e0, filtered |-> EmptyDict]
        ELSE IF g.err # "" THEN [err |-> g.err, filtered |-> EmptyDict]
        ELSE IF f.err # "" THEN [err |-> f.err, filtered |-> EmptyDict]
        ELSE [err |-> "", filtered |-> f.filtered]

----------------------------------------------------------------------------
\* calculate_interface_statistics and summarize_interface_statistics

\* round(a / b) to the nearest integer, ties to the even one (Python's round)
RoundDiv(a, b) ==
    LET q == a \div b
        r == a % b
    IN  IF 2 * r < b THEN q
        ELSE IF 2 * r > b THEN q + 1
        ELSE IF q % 2 = 0 THEN q ELSE q + 1

\* the accumulation defaults: pLDDT ranges over 0..100, PAE over 0..30
PLDDT_MIN_INIT == 100
PAE_MIN_INIT == 30

RECURSIVE SumOver(_, _)
\* the sum of f[x] over the elements x of S
SumOver(f, S) ==
    IF S = {} THEN 0
    ELSE LET x == CHOOSE y \in S : TRUE IN f[x] + SumOver(f, S \ {x})

SetMin(S) == CHOOSE x \in S : \A y \in S : x <= y
SetMax(S) == CHOOSE x \in S : \A y \in S : x >= y

\* faulty variant: the minima of an empty interface stay at the accumulation
\* defaults
calculate_interface_statistics_defaults(interchain_id, filtered) ==
    LET interchain_contacts == IF interchain_id \notin DOMAIN filtered THEN EmptyDict
                               ELSE filtered[interchain_id]
        ids == DOMAIN interchain_contacts
        avg_plddt == [id \in ids |-> 5 * (interchain_contacts[id].plddts[1]
                                           + interchain_contacts[id].plddts[2])]
        pae == [id \in ids |-> interchain_contacts[id].pae]
        dist == [id \in ids |-> interchain_contacts[id].distance]
        num_contacts == Cardinality(ids)
    IN  [num_contacts |-> num_contacts,
         plddt |-> <<SetMin({10 * PLDDT_MIN_INIT} \cup {avg_plddt[id] : id \in ids}),
                     IF num_contacts > 0
                     THEN RoundDiv(SumOver(avg_plddt, ids), num_contacts) ELSE 0,
                     SetMax({0} \cup {avg_plddt[id] : id \in ids})>>,
         pae |-> <<SetMin({10 * PAE_MIN_INIT} \cup {pae[id] : id \in ids}),
                   IF num_contacts > 0 THEN RoundDiv(SumOver(pae, ids), num_contacts) ELSE 0,
                   SetMax({0} \cup {pae[id] : id \in ids})>>,
         distance_avg |-> IF num_contacts > 0
                          THEN RoundDiv(SumOver(dist, ids), num_contacts) ELSE 0]

\* round(a / b, 1), for a in units of which 'res' make a tenth
RoundTenth(a, b, res) == res * RoundDiv(a, b * res)

\* faulty variant: the smallest confidence starts at zero, as the largest does
interface_statistics_min_from_zero(interchain_contacts, res) ==
    LET ids == DOMAIN interchain_contacts
        \* mean(contact['plddts'])
        avg_plddt == [id \in ids |-> 5 * (interchain_contacts[id].plddts[1]
                                           + interchain_contacts[id].plddts[2])]
        pae == [id \in ids |-> interchain_contacts[id].pae]
        dist == [id \in ids |-> interchain_contacts[id].distance]
        num_contacts == Cardinality(ids)
        plddt_max == SetMax({0} \cup {avg_plddt[id] : id \in ids})
        plddt_min == SetMin({0} \cup {avg_plddt[id] : id \in ids})
        pae_max == SetMax({0} \cup {pae[id] : id \in ids})
        pae_min == SetMin({10 * res * PAE_MIN_INIT} \cup {pae[id] : id \in ids})
    IN  IF num_contacts > 0
        THEN [num_contacts |-> num_contacts,
              plddt |-> <<plddt_min, RoundTenth(SumOver(avg_plddt, ids), num_contacts, res),
                          plddt_max>>,
              pae |-> <<pae_min, RoundTenth(SumOver(pae, ids), num_contacts, res),
                        pae_max>>,
              distance_avg |-> RoundTenth(SumOver(dist, ids), num_contacts, res)]
        ELSE [num_contacts |-> 0,
              plddt |-> <<0, 0, plddt_max>>,
              pae |-> <<0, 0, pae_max>>,
              distance_avg |-> 0]

\* lines 541-587: the statistics of the contacts of one chain pair.  'res'
\* tells how finely the contacts are measured: their plddts come in units of
\* which res make one, their pae and distance, and the statistics, in units
\* of which res make a tenth.
interface_statistics(interchain_contacts, res) ==
    LET ids == DOMAIN interchain_contacts
        \* mean(contact['plddts'])
        avg_plddt == [id \in ids |-> 5 * (interchain_contacts[id].plddts[1]
                                           + interchain_contacts[id].plddts[2])]
        pae == [id \in ids |-> interchain_contacts[id].pae]
        dist == [id \in ids |-> interchain_contacts[id].distance]
        num_contacts == Cardinality(ids)
        plddt_max == SetMax({0} \cup {avg_plddt[id] : id \in ids})
        plddt_min == SetMin({10 * res * PLDDT_MIN_INIT} \cup {avg_plddt[id] : id \in ids})
        pae_max == SetMax({0} \cup {pae[id] : id \in ids})
        pae_min == SetMin({10 * res * PAE_MIN_INIT} \cup {pae[id] : id \in ids})
    IN  IF num_contacts > 0
        THEN [num_contacts |-> num_contacts,
              plddt |-> <<plddt_min, RoundTenth(SumOver(avg_plddt, ids), num_contacts, res),
                          plddt_max>>,
              pae |-> <<pae_min, RoundTenth(SumOver(pae, ids), num_contacts, res),
                        pae_max>>,
              distance_avg |-> RoundTenth(SumOver(dist, ids), num_contacts, res)]
        ELSE [num_contacts |-> 0,
              plddt |-> <<0, 0, plddt_max>>,
              pae |-> <<0, 0, pae_max>>,
              distance_avg |-> 0]

\* calculate_interface_statistics: the statistics of the contacts that the
\* dict 'filtered' holds for the chain pair interchain_id (whole pLDDTs, all
\* the rest in tenths)
calculate_interface_statistics(interchain_id, filtered) ==
    interface_statistics(IF interchain_id \notin DOMAIN filtered THEN EmptyDict
                         ELSE filtered[interchain_id],
                         1)

\* the (model, chain pair, contact id) entries of the dict 'interfaces'
InterfaceEntries(ifaces) ==
    UNION {UNION {{<<m, cc, id>> : id \in DOMAIN ifaces[m][cc]}
                    : cc \in DOMAIN ifaces[m]} : m \in DOMAIN ifaces}

\* unique_contacts with the 'else' lost: a new contact_id is set to 1 and
\* then incremented as well
unique_contacts_no_else(ifaces) ==
    LET es == InterfaceEntries(ifaces)
    IN  [id \in {e[3] : e \in es} |-> 1 + Cardinality({e \in es : e[3] = id})]

\* unique_contacts: for each contact_id, the number of entries that carry it
unique_contacts(ifaces) ==
    LET es == InterfaceEntries(ifaces)
    IN  [id \in {e[3] : e \in es} |-> Cardinality({e \in es : e[3] = id})]

\* summarize_interface_statistics averaging over the models instead of over
\* the unique contacts
summarize_avg_over_models(ifaces) ==
    LET uc == unique_contacts(ifaces)
        max_num_models == SetMax({0} \cup {uc[id] : id \in DOMAIN uc})
        num_contacts == Cardinality(DOMAIN uc)
        sum_num_models == SumOver(uc, DOMAIN uc)
    IN  [max_n_models |-> max_num_models,
         avg_n_models |-> IF num_contacts > 0
                          THEN RoundDiv(10 * sum_num_models, Cardinality(DOMAIN ifaces))
                          ELSE 0,
         num_contacts_with_max_n_models |->
             Cardinality({id \in DOMAIN uc : uc[id] = max_num_models}),
         num_unique_contacts |-> num_contacts]

\* summarize_interface_statistics (avg_n_models in tenths)
summarize_interface_statistics(ifaces) ==
    LET uc == unique_contacts(ifaces)
        max_num_models == SetMax({0} \cup {uc[id] : id \in DOMAIN uc})
        num_contacts == Cardinality(DOMAIN uc)
        sum_num_models == SumOver(uc, DOMAIN uc)
    IN  [max_n_models |-> max_num_models,
         avg_n_models |-> IF num_contacts > 0
                          THEN RoundDiv(10 * sum_num_models, num_contacts) ELSE 0,
         num_contacts_with_max_n_models |->
             Cardinality({id \in DOMAIN uc : uc[id] = max_num_models}),
         num_unique_contacts |-> num_contacts]

----------------------------------------------------------------------------
\* get_chain_list_names and get_pdockq_elofsson

RECURSIVE ChainListScan(_, _, _, _)
ChainListScan(lines, k, last_chain, chains) ==
    IF k > Len(lines) THEN chains
    ELSE IF lines[k].rec # "ATOM" THEN ChainListScan(lines, k + 1, last_chain, chains)
    ELSE IF lines[k].chain # last_chain
         THEN ChainListScan(lines, k + 1, lines[k].chain, Append(chains, lines[k].chain))
    ELSE ChainListScan(lines, k + 1, last_chain, chains)

\* get_chain_list_names: the chain ids of the ATOM records, in file order, a
\* new entry each time the id changes (no record is filtered out)
get_chain_list_names(pdb) == ChainListScan(pdb.lines, 1, NoChain, <<>>)

\* t = 8: representative atoms at most 8 Angstroms apart are in contact
PDOCKQ_T == 8

\* The fitted curve 0.724 / (1 + exp(-0.052 * (x - 152.611))) + 0.018 at
\* x = avg_if_plddt * log10(n_if_contacts), rounded to three decimals as the
\* caller rounds it, for n_if_contacts in 1..4.  For each n the rounded curve
\* is a step function of the average confidence: it is 0.018 at 0 and rises
\* by 0.001 at each of the listed averages (in thousandths of a pLDDT unit,
\* rounded up).
PDOCKQ_STEPS ==
    << <<>>,
       <<42069>>,
       <<26543, 70879, 91524>>,
       <<21035, 56170, 72531, 83323, 91395, 97849>> >>

\* faulty variant: the sign of the exponent is lost, the curve falls
pdockq_curve_falling(plddt_sum, plddt_count, n_if_contacts) ==
    18 + Cardinality({k \in 1..Len(PDOCKQ_STEPS[n_if_contacts]) :
                        1000 * plddt_sum < PDOCKQ_STEPS[n_if_contacts][k] * plddt_count})

\* round(pdockq, 3) in thousandths, for the average plddt_sum / plddt_count of
\* the interface residues and n_if_contacts contacts
pdockq_curve(plddt_sum, plddt_count, n_if_contacts) ==
    18 + Cardinality({k \in 1..Len(PDOCKQ_STEPS[n_if_contacts]) :
                        1000 * plddt_sum >= PDOCKQ_STEPS[n_if_contacts][k] * plddt_count})

\* the CB atoms (CA for glycine) of the ATOM records of one chain, in order
representative_atoms(pdb, chain) ==
    SelectSeq(pdb.lines,
              LAMBDA l : /\ l.rec = "ATOM" /\ l.chain = chain
                         /\ (l.atm = "CB" \/ (l.atm = "CA" /\ l.res = "GLY")))

\* get_pdockq_elofsson for the two chains 'chains', rounded to thousandths;
\* 'err' when the chains with a representative atom are not exactly two
get_pdockq_elofsson(pdb, chains) ==
    LET names == get_chain_list_names(pdb)
        \* the keys of chain_coords: each chain id once, in order of appearance
        first == SelectSeq([k \in 1..Len(names) |-> <<k, names[k]>>],
                           LAMBDA x : \A j \in 1..(x[1] - 1) : names[j] # x[2])
        keys == SelectSeq([k \in 1..Len(first) |-> first[k][2]],
                          LAMBDA c : /\ \E k \in 1..Len(chains) : chains[k] = c
                                     /\ Len(representative_atoms(pdb, c)) > 0)
    IN  IF Len(keys) # 2 THEN [err |-> "ValueError: unpack", pdockq |-> 0]
        ELSE
          LET atoms1 == representative_atoms(pdb, keys[1])
              atoms2 == representative_atoms(pdb, keys[2])
              if_contacts == {p \in (1..Len(atoms1)) \X (1..Len(atoms2)) :
                                dist2(atoms1[p[1]].xyz, atoms2[p[2]].xyz)
                                    <= PDOCKQ_T * PDOCKQ_T}
              rows == {p[1] : p \in if_contacts}
              cols == {p[2] : p \in if_contacts}
              plddt_sum == SumOver([k \in rows |-> atoms1[k].bfactor], rows)
                             + SumOver([k \in cols |-> atoms2[k].bfactor], cols)
          IN  IF Cardinality(if_contacts) < 1 THEN [err |-> "", pdockq |-> 0]
              ELSE [err |-> "",
                    pdockq |-> pdockq_curve(plddt_sum,
                                            Cardinality(rows) + Cardinality(cols),
                                            Cardinality(if_contacts))]

----------------------------------------------------------------------------
\* Inputs of one get_contacts call

\* bounds of the input families
GridMax == 5        \* x coordinates are GridStep * (0..GridMax)
GridStep == 7
MaxSide == 4        \* PAE matrices have 1..MaxSide rows

Grid == {GridStep * k : k \in 0..GridMax}
Distances == {6, 8}         \* max_distance
PlddtLevels == {40, 90}     \* one below, one above the threshold
PaeLevels == {2, 5, 20}     \* values of the matrix cells the contacts read
PaeCutoffs == {4, 15}       \* max_pae
ChainBY == 3                \* chain B lies in the plane y = 3

AtomLine(atm, res, chain, c_ix, x, y, b) ==
    [rec |-> "ATOM", atm |-> atm, res |-> res, chain |-> chain, c_ix |-> c_ix,
     xyz |-> <<x, y, 0>>, bfactor |-> b]

TerLine == [rec |-> "TER", atm |-> "", res |-> "", chain |-> "", c_ix |-> 0,
            xyz |-> <<0, 0, 0>>, bfactor |-> 0]

\* the two atom records of a residue: its backbone nitrogen, then its CB
ResidueLines(res, chain, c_ix, y, nx, cbx, bn, bcb) ==
    <<AtomLine("N", res, chain, c_ix, nx, y, bn),
      AtomLine("CB", res, chain, c_ix, cbx, y, bcb)>>

PdbFile(tag, lines) == [empty |-> FALSE, tag |-> tag, lines |-> lines, rows |-> <<>>]
PaeFile(tag, rows) == [empty |-> FALSE, tag |-> tag, lines |-> <<>>, rows |-> rows]

Params(d, p, e, m, v) ==
    [max_distance |-> d, min_plddt |-> p, max_pae |-> e, pae_mode |-> m,
     valid_aas |-> v]

\* Family 1: two chains of one residue each, every atom anywhere on the grid
GeometryFiles ==
    {PdbFile(<<1>>, ResidueLines("LYS", "A", 1, 0, n1, c1, 90, 90) \o <<TerLine>>
                    \o ResidueLines("GLY", "B", 1, ChainBY, n2, c2, 90, 90))
       : <<n1, c1, n2, c2>> \in Grid \X Grid \X Grid \X Grid}

\* Family 2: chain A of one residue, chain B of two, fixed coordinates, every
\* atom record with its own confidence; the middle residue of any type
MixedFile(b, res2) ==
    PdbFile(<<2>>, ResidueLines("LYS", "A", 1, 0, 0, GridStep, b[1], b[2])
                   \o <<TerLine>>
                   \o ResidueLines(res2, "B", 1, ChainBY, GridStep, 0, b[3], b[4])
                   \o ResidueLines("LYS", "B", 2, ChainBY, 2 * GridStep, GridStep,
                                   b[5], b[6]))

ConfidenceFiles ==
    {MixedFile(b, res2) : b \in [1..6 -> PlddtLevels], res2 \in {"LYS", "GLY", "UNK"}}

\* the three-residue structure all of whose atoms are confident: residues
\* 1 (chain A), 2 and 3 (chain B), contacts 1-2 and 1-3
ThreeResidues == MixedFile([k \in 1..6 |-> 90], "GLY")

\* Family 3: matrices of side n; the cells of the pairs (1,2) and (1,3) take
\* every value, every other cell a value of its own
FillerCell(r, c) == 3 * r + c
Matrix(n, v) ==
    [r \in 1..n |-> [c \in 1..n |->
        IF <<r, c>> = <<1, 2>> THEN v[1]
        ELSE IF <<r, c>> = <<2, 1>> THEN v[2]
        ELSE IF <<r, c>> = <<1, 3>> THEN v[3]
        ELSE IF <<r, c>> = <<3, 1>> THEN v[4]
        ELSE FillerCell(r, c)]]

\* a payload whose length is no perfect square
Ragged == <<<<1, 2, 3>>, <<4, 5>>>>

PaeFiles ==
    {PaeFile(<<2>>, Matrix(n, v)) : n \in 1..MaxSide, v \in [1..4 -> PaeLevels]}
      \cup {PaeFile(<<2>>, Ragged)}

\* Family 4: the model numbers of the two file names
ModelTags == {NoTag, <<0>>, <<2>>, <<5>>, <<6>>, <<1, 2>>}

\* Family 5: two chains of one residue each, every atom of the one 5 Angstroms
\* from every atom of the other, confidence 90; no matrix, the 2-residue
\* matrix [[0, 5], [5, 0]], or a ragged payload; the contact cutoff at the
\* distance or above it, the error cutoff below, at and above the cells
TwoResidues ==
    PdbFile(<<1>>, ResidueLines("LYS", "A", 1, 0, 0, 0, 90, 90) \o <<TerLine>>
                   \o ResidueLines("LYS", "B", 1, 0, 5, 5, 90, 90))
TwoByTwo == <<<<0, 5>>, <<5, 0>>>>
ExampleDistances == {5, 8}
ExampleCutoffs == {4, 5, 15}

\* no call of distribute is under way
DistributeIdle ==
    /\ dpc = "idle"
    /\ items = <<>>
    /\ bins = 0
    /\ groups = <<>>

\* no call of calculate_interface_statistics on its own is under way
StatsIdle ==
    /\ ipc = "idle"
    /\ interface = EmptyDict
    /\ data = EmptyDict

\* no call of get_pdockq_elofsson is under way
ScoreIdle ==
    /\ qpc = "idle"
    /\ pdb_filepath = EmptyName
    /\ if_chains = <<>>
    /\ pdockq = 0

\* no call of summarize_interface_statistics is under way
SummaryIdle ==
    /\ spc = "idle"
    /\ interfaces = EmptyDict
    /\ stats = EmptyDict

None == [none |-> TRUE]

\* analyze_folder is not running
BatchIdle ==
    /\ fpc = "idle"
    /\ data_folder = None
    /\ complex_name_lists = <<>>
    /\ index = 0
    /\ zipped = <<>>
    /\ interface_contacts = EmptyDict
    /\ best_interface_stats = None
    /\ summary_stats = EmptyDict
    /\ all_interface_stats = <<>>
    /\ all_contacts = <<>>
    /\ output_folder = EmptyDict
    /\ exception = ""
    /\ visited = <<>>

\* no call of get_contacts is under way
ContactsIdle ==
    /\ pc = "idle"
    /\ pdb_filename = EmptyName
    /\ pae_filename = EmptyName
    /\ structure = ParseInit
    /\ contacts = <<>>
    /\ pae_reads = {}
    /\ filtered_contacts = EmptyDict
    /\ error = ""

InitContacts ==
    /\ DistributeIdle
    /\ StatsIdle
    /\ SummaryIdle
    /\ BatchIdle
    /\ ScoreIdle
    /\ pc = "start"
    /\ structure = ParseInit
    /\ contacts = <<>>
    /\ pae_reads = {}
    /\ filtered_contacts = EmptyDict
    /\ error = ""
    /\ \/ /\ pdb_filename \in GeometryFiles
          /\ pae_filename = EmptyName
          /\ params \in {Params(d, 50, 15, "min", {}) : d \in Distances}
       \/ /\ pdb_filename \in ConfidenceFiles
          /\ pae_filename = EmptyName
          /\ params \in {Params(8, 50, 15, "min", v) : v \in {{}, {"K"}}}
       \/ /\ pdb_filename = ThreeResidues
          /\ pae_filename \in PaeFiles
          /\ params \in {Params(8, 50, e, m, {}) : e \in PaeCutoffs, m \in {"min", "avg"}}
       \/ /\ pdb_filename \in {PdbFile(t, ThreeResidues.lines) : t \in ModelTags}
          /\ pae_filename \in {EmptyName} \cup
                               {PaeFile(t, Matrix(3, [k \in 1..4 |-> 5])) : t \in ModelTags}
                               \cup {PaeFile(t, Ragged) : t \in ModelTags}
          /\ params = Params(8, 50, 15, "min", {})
       \/ /\ pdb_filename = TwoResidues
          /\ pae_filename \in {EmptyName, PaeFile(<<1>>, TwoByTwo), PaeFile(<<1>>, Ragged)}
          /\ params \in {Params(d, 50, e, m, {}) : d \in ExampleDistances,
                                                  e \in ExampleCutoffs, m \in {"min", "avg"}}

----------------------------------------------------------------------------
\* get_contacts, step by step

\* lines 450-459: the checks on the model numbers
CheckModelNumbers ==
    /\ pc = "start"
    /\ LET e == model_num_error(pdb_filename, pae_filename)
       IN  /\ error' = e
           /\ pc' = IF e # "" THEN "raised" ELSE "geometry"
    /\ UNCHANGED <<pdb_filename, pae_filename, params, structure, contacts,
                   pae_reads, filtered_contacts>>
    /\ UNCHANGED <<svars, bvars, qvars, dvars, ivars>>

\* lines 461-464: get_contacts_from_structure, and the early return when no
\* contact was found
StructureContacts ==
    /\ pc = "geometry"
    /\ LET g == get_contacts_from_structure(pdb_filename, params.max_distance,
                                            params.min_plddt, params.valid_aas, FALSE)
       IN  /\ structure' = g.structure
           /\ contacts' = g.contacts
           /\ error' = g.err
           /\ pc' = IF g.err # "" THEN "raised"
                    ELSE IF Len(g.contacts) < 1 THEN "returned"
                    ELSE "filter"
    /\ UNCHANGED <<pdb_filename, pae_filename, params, pae_reads, filtered_contacts>>
    /\ UNCHANGED <<svars, bvars, qvars, dvars, ivars>>

\* lines 466-530: load the matrix and filter the contacts
FilterContacts ==
    /\ pc = "filter"
    /\ LET f == filter_contacts(contacts, pdb_filename, pae_filename, params.max_pae,
                                params.pae_mode, params.valid_aas)
       IN  /\ error' = f.err
           /\ pae_reads' = f.reads
           /\ filtered_contacts' = IF f.err # "" THEN EmptyDict ELSE f.filtered
           /\ pc' = IF f.err # "" THEN "raised" ELSE "returned"
    /\ UNCHANGED <<pdb_filename, pae_filename, params, structure, contacts>>
    /\ UNCHANGED <<svars, bvars, qvars, dvars, ivars>>

NextContacts == CheckModelNumbers \/ StructureContacts \/ FilterContacts

SpecContacts == InitContacts /\ [][NextContacts]_vars

----------------------------------------------------------------------------
\* Claims about one get_contacts call (SpecContacts)

\* the residues of chain i of the parsed structure, with their nitrogens
ResiduesOf(i) == {k \in 1..Len(structure.residues[i]) : TRUE}

\* every atom stored in residue k of chain i is within BROAD_MARGIN / 2 of
\* the residue's backbone nitrogen
AtomsNearNitrogen(i, k) ==
    \A a \in 1..Len(structure.residues[i][k].atoms) :
        4 * dist2(structure.residues[i][k].atoms[a].xyz, structure.N_coords[i][k])
            <= BROAD_MARGIN * BROAD_MARGIN

\* the pairs of absolute indices of the contacts of a list
ContactPairs(cs) == {<<cs[k].aa1.a_ix, cs[k].aa2.a_ix>> : k \in 1..Len(cs)}

\* residues k of chain i and k2 of chain i2 have two atoms strictly closer
\* than max_distance
TrueContact(i, k, i2, k2) ==
    get_closest_atoms(structure.residues[i][k], structure.residues[i2][k2])[1]
        < params.max_distance * params.max_distance

Reported(i, k, i2, k2) ==
    <<structure.residues[i][k].a_ix, structure.residues[i2][k2].a_ix>>
        \in ContactPairs(contacts)

\* C5, as claimed: for any atom coordinates, every residue pair of two
\* different chains whose closest atoms are strictly closer than d is among
\* the reported contacts (the relaxed cutoff prunes no true contact).
C5_NoTrueContactPruned ==
    structure.err = "" =>
      \A i \in 1..Len(structure.chains) : \A i2 \in (i + 1)..Len(structure.chains) :
        \A k \in ResiduesOf(i) : \A k2 \in ResiduesOf(i2) :
          TrueContact(i, k, i2, k2) => Reported(i, k, i2, k2)

\* C5, amended: when every atom of both residues lies within 10 Angstroms
\* (half the relaxed margin) of its residue's backbone nitrogen, a residue
\* pair of two different chains whose closest atoms are strictly closer than
\* d is a broad-phase candidate and is reported; and every reported contact
\* is a broad-phase candidate.
C5_NoNearContactPruned ==
    structure.err = "" =>
      /\ \A i \in 1..Len(structure.chains) : \A i2 \in (i + 1)..Len(structure.chains) :
           \A k \in ResiduesOf(i) : \A k2 \in ResiduesOf(i2) :
             (TrueContact(i, k, i2, k2) /\ AtomsNearNitrogen(i, k)
                /\ AtomsNearNitrogen(i2, k2))
             => /\ Reported(i, k, i2, k2)
                /\ \E p \in 1..Len(index_pairs(structure, i, i2, params.max_distance)) :
                      index_pairs(structure, i, i2, params.max_distance)[p] = <<k, k2>>
      /\ \A c \in 1..Len(contacts) :
           \E i \in 1..Len(structure.chains) : \E i2 \in (i + 1)..Len(structure.chains) :
             \E p \in 1..Len(index_pairs(structure, i, i2, params.max_distance)) :
               LET q == index_pairs(structure, i, i2, params.max_distance)[p]
               IN  /\ structure.residues[i][q[1]].a_ix = contacts[c].aa1.a_ix
                   /\ structure.residues[i2][q[2]].a_ix = contacts[c].aa2.a_ix

\* C5 witness: a reported contact between two residues whose atoms are all
\* near their nitrogens while the nitrogens themselves are not within d: the
\* pair is a candidate only because of the relaxed cutoff.
C5_Witness ==
    /\ structure.err = ""
    /\ Len(structure.chains) = 2
    /\ \E k \in ResiduesOf(1) : \E k2 \in ResiduesOf(2) :
         /\ TrueContact(1, k, 2, k2)
         /\ AtomsNearNitrogen(1, k) /\ AtomsNearNitrogen(2, k2)
         /\ Reported(1, k, 2, k2)
         /\ dist2(structure.N_coords[1][k], structure.N_coords[2][k2])
              >= params.max_distance * params.max_distance

\* the contacts found when every chain pair is searched with the later chain
\* first and the earlier chain second
swapped_contacts ==
    LET cps == chain_pairs(Len(structure.chains), FALSE)
    IN  Concat([k \in 1..Len(cps) |->
                  chain_pair_contacts(structure, cps[k][2], cps[k][1],
                                      params.max_distance)])

UnorderedPairs(cs) == {{cs[k].aa1.a_ix, cs[k].aa2.a_ix} : k \in 1..Len(cs)}

\* C6: searching each chain pair with the two chains in the other order
\* yields the same set of unordered residue pairs as the reported contacts.
C6_DetectionSymmetric ==
    structure.err = "" => UnorderedPairs(contacts) = UnorderedPairs(swapped_contacts)

\* C6 witness: a contact was reported whose closest atoms are of different
\* kinds on the two sides, so the order of the two residues shows.
C6_Witness ==
    /\ structure.err = ""
    /\ \E k \in 1..Len(contacts) :
         /\ contacts[k].aa1.atom = "CB" /\ contacts[k].aa2.atom = "N"
         /\ {contacts[k].aa1.a_ix, contacts[k].aa2.a_ix} \in UnorderedPairs(swapped_contacts)

\* the matrix as the file gives it: an array of rows
MatrixRows == pae_filename.rows
MatrixSide == Len(MatrixRows)
MatrixIsSquare == \A r \in 1..MatrixSide : Len(MatrixRows[r]) = MatrixSide

\* the filter loop of get_contacts has run (or raised)
FilterDone == contacts # <<>> /\ pc \in {"returned", "raised"}

\* C9: with a matrix of side N, the two values recorded for a contact of
\* residues i, j are the cells (i, j) and (j, i) of the matrix, read at the
\* flat offsets (i-1)*N+(j-1) and (j-1)*N+(i-1).
C9_DirectionalCells ==
    (FilterDone /\ ~pae_filename.empty /\ MatrixIsSquare) =>
      /\ \A cc \in DOMAIN filtered_contacts : \A id \in DOMAIN filtered_contacts[cc] :
           /\ id[1] \in 1..MatrixSide /\ id[2] \in 1..MatrixSide
           /\ filtered_contacts[cc][id].paes
                = <<MatrixRows[id[1]][id[2]], MatrixRows[id[2]][id[1]]>>
      /\ \A rd \in pae_reads :
           rd[3] = IF rd[2] = 1
                   THEN (rd[1][1] - 1) * MatrixSide + (rd[1][2] - 1)
                   ELSE (rd[1][2] - 1) * MatrixSide + (rd[1][1] - 1)

\* C9 witness: a returned contact whose two directional values differ.
C9_Witness ==
    /\ FilterDone /\ ~pae_filename.empty /\ MatrixIsSquare /\ error = ""
    /\ \E cc \in DOMAIN filtered_contacts : \E id \in DOMAIN filtered_contacts[cc] :
         /\ filtered_contacts[cc][id].paes[1] # filtered_contacts[cc][id].paes[2]
         /\ pae_reads # {}

SomeIndexBeyondMatrix ==
    \E k \in 1..Len(contacts) :
        contacts[k].aa1.a_ix > MatrixSide \/ contacts[k].aa2.a_ix > MatrixSide

\* C10: with a matrix of side N and a geometric contact with a residue index
\* above N, get_contacts raises the index-mismatch error, and no cell was read
\* for a pair other than the cell's own (row, column).
C10_IndexMismatchRaises ==
    (FilterDone /\ ~pae_filename.empty /\ MatrixIsSquare) =>
      /\ SomeIndexBeyondMatrix =>
           /\ error = "ValueError: non-existant PAE values"
           /\ filtered_contacts = EmptyDict
      /\ \A rd \in pae_reads :
           LET row == (rd[3] \div MatrixSide) + 1
               col == (rd[3] % MatrixSide) + 1
           IN  <<row, col>> = IF rd[2] = 1 THEN rd[1] ELSE <<rd[1][2], rd[1][1]>>

\* C10 witness: the first contact is within the matrix and was read, a later
\* one is beyond it, and the call raised.
C10_Witness ==
    /\ FilterDone /\ ~pae_filename.empty /\ MatrixIsSquare
    /\ SomeIndexBeyondMatrix
    /\ pae_reads # {}
    /\ error = "ValueError: non-existant PAE values"

\* C11: with a matrix, the combined error of a contact is the mean of its two
\* directional values in 'avg' mode and their minimum in 'min' mode, and a
\* geometric contact is dropped exactly when the combined error is strictly
\* greater than max_pae (the recorded value is in tenths).
C11_CombinedErrorFilter ==
    (FilterDone /\ ~pae_filename.empty /\ MatrixIsSquare /\ error = "") =>
      \A k \in 1..Len(contacts) :
        LET id == <<contacts[k].aa1.a_ix, contacts[k].aa2.a_ix>>
            cc == <<contacts[k].aa1.chain, contacts[k].aa2.chain>>
            a == MatrixRows[id[1]][id[2]]
            b == MatrixRows[id[2]][id[1]]
            twice == IF params.pae_mode = "avg" THEN a + b
                     ELSE IF a <= b THEN 2 * a ELSE 2 * b
            kept == cc \in DOMAIN filtered_contacts /\ id \in DOMAIN filtered_contacts[cc]
        IN  /\ kept <=> ~(twice > 2 * params.max_pae)
            /\ kept => filtered_contacts[cc][id].pae = 5 * twice

\* C11 witness: the matrix [[0, 5], [5, 0]] in 'min' mode: the pair (1, 2) has
\* combined error 5, which is not strictly greater than max_pae = 5, and is
\* returned.
C11_Witness ==
    /\ FilterDone /\ error = ""
    /\ pae_filename.rows = TwoByTwo
    /\ params.pae_mode = "min" /\ params.max_pae = 5
    /\ <<"A", "B">> \in DOMAIN filtered_contacts
    /\ <<1, 2>> \in DOMAIN filtered_contacts[<<"A", "B">>]
    /\ filtered_contacts[<<"A", "B">>][<<1, 2>>].pae = 50

\* the structure's model number is outside 1..5, or a matrix is supplied
\* whose model number differs from the structure's
BadModelNumbers ==
    \/ get_af_model_num(pdb_filename) \notin MIN_MODEL_NUM..MAX_MODEL_NUM
    \/ /\ ~pae_filename.empty
       /\ get_af_model_num(pae_filename) # get_af_model_num(pdb_filename)

\* C12: when the structure's model number is outside 1..5, or a matrix is
\* supplied with a different model number, get_contacts raises before the
\* structure is parsed, any contact is computed or any matrix cell is read.
C12_ModelNumbersCheckedFirst ==
    BadModelNumbers =>
      /\ pc \in {"start", "raised"}
      /\ pc = "raised" => error \in {"ValueError: invalid model number",
                                     "ValueError: File mismatch"}
      /\ structure = ParseInit
      /\ contacts = <<>>
      /\ pae_reads = {}
      /\ filtered_contacts = EmptyDict

\* C12 witness: a structure of model 2 with the matrix of model 5: the call
\* has raised the mismatch error with nothing parsed and nothing read.
C12_Witness ==
    /\ pc = "raised"
    /\ error = "ValueError: File mismatch"
    /\ get_af_model_num(pdb_filename) = 2
    /\ get_af_model_num(pae_filename) = 5
    /\ structure = ParseInit /\ contacts = <<>> /\ pae_reads = {}

\* the record of the structure file that an atom was read from
LineOf(atom) == pdb_filename.lines[atom.ln]

\* C14: nothing below the confidence threshold takes part in the geometry:
\* every residue of the parsed structure, every atom stored in it and both
\* residues of every contact have a confidence of at least min_plddt, and a
\* residue's confidence is the one of its backbone-nitrogen record.
C14_ConfidentResiduesOnly ==
    /\ \A k \in 1..Len(contacts) :
         /\ contacts[k].aa1.plddt >= params.min_plddt
         /\ contacts[k].aa2.plddt >= params.min_plddt
    /\ \A i \in 1..Len(structure.residues) : \A k \in ResiduesOf(i) :
         LET r == structure.residues[i][k]
         IN  /\ r.plddt >= params.min_plddt
             /\ \A a \in 1..Len(r.atoms) : LineOf(r.atoms[a]).bfactor >= params.min_plddt
             /\ LineOf(r.atoms[1]).atm = "N"
             /\ LineOf(r.atoms[1]).bfactor = r.plddt

\* C14 witness: three residues were read, one of them was discarded for its
\* confidence, and a contact between the two others was found.
C14_Witness ==
    /\ structure.err = ""
    /\ structure.abs_res_index = 3
    /\ \E k \in 1..Len(pdb_filename.lines) :
         /\ pdb_filename.lines[k].atm = "N"
         /\ pdb_filename.lines[k].bfactor < params.min_plddt
    /\ Len(contacts) >= 1
    /\ \A k \in 1..Len(contacts) : contacts[k].aa1.plddt >= params.min_plddt

\* the (chain pair, index pair) keys of a returned dict
FilteredKeys(filtered) ==
    UNION {{<<cc, id>> : id \in DOMAIN filtered[cc]} : cc \in DOMAIN filtered}

\* C15: when the matrix is ignored (empty file name) the filter loop does not
\* raise and reads no cell, the returned contacts are exactly the geometric
\* contacts (which passed the confidence and amino-acid filters), each with
\* combined error 0 and the geometric contact's confidences and distance, and
\* the result is the same for every max_pae and either mode.
C15_IgnoredMatrixBypassesFilter ==
    (FilterDone /\ pae_filename.empty) =>
      /\ pc = "returned" /\ error = ""
      /\ pae_reads = {}
      /\ FilteredKeys(filtered_contacts)
           = {<<<<contacts[k].aa1.chain, contacts[k].aa2.chain>>,
                <<contacts[k].aa1.a_ix, contacts[k].aa2.a_ix>>>> : k \in 1..Len(contacts)}
      /\ \A k \in 1..Len(contacts) :
           LET c == contacts[k]
               rec == filtered_contacts[<<c.aa1.chain, c.aa2.chain>>][<<c.aa1.a_ix, c.aa2.a_ix>>]
           IN  /\ rec.pae = 0 /\ rec.paes = <<0, 0>>
               /\ rec.plddts = <<c.aa1.plddt, c.aa2.plddt>>
               /\ rec.distance = c.distance
               /\ params.valid_aas # {} =>
                    (c.aa1.type \in params.valid_aas /\ c.aa2.type \in params.valid_aas)
      /\ \A e \in {0} \cup PaeCutoffs \cup ExampleCutoffs : \A m \in {"min", "avg"} :
           get_contacts(pdb_filename, pae_filename, params.max_distance,
                        params.min_plddt, e, m, params.valid_aas)
             = [err |-> "", filtered |-> filtered_contacts]

\* C15 witness: a call without matrix, in 'avg' mode with the smallest
\* max_pae, returned the geometric contact with combined error 0.
C15_Witness ==
    /\ FilterDone /\ pae_filename.empty /\ pc = "returned"
    /\ params.pae_mode = "avg" /\ params.max_pae = 4
    /\ Len(contacts) = 1
    /\ FilteredKeys(filtered_contacts) = {<<<<"A", "B">>, <<1, 2>>>>}
    /\ filtered_contacts[<<"A", "B">>][<<1, 2>>].pae = 0

\* the absolute index of the residue that the record of line k belongs to:
\* the number of backbone-nitrogen ATOM records among the lines 1..k
AbsIndexOfLine(k) ==
    Cardinality({j \in 1..k : /\ pdb_filename.lines[j].rec = "ATOM"
                              /\ pdb_filename.lines[j].atm = "N"})

\* C17: in the structure the parser builds, every atom stored in a residue
\* was read from a record of that same residue (same chain, same absolute
\* index, same in-chain index), and no atom record is met before a residue
\* has begun.
C17_AtomsBelongToResidue ==
    /\ structure.err # "UnboundLocalError"
    /\ \A i \in 1..Len(structure.residues) : \A k \in ResiduesOf(i) :
         LET r == structure.residues[i][k]
         IN  \A a \in 1..Len(r.atoms) :
               /\ LineOf(r.atoms[a]).chain = r.chain
               /\ LineOf(r.atoms[a]).c_ix = r.c_ix
               /\ AbsIndexOfLine(r.atoms[a].ln) = r.a_ix

\* the residues of the parsed structure, chain after chain
StoredResidues == Concat(structure.residues)

\* C18: the absolute index of a stored residue is the 1-based position of its
\* backbone-nitrogen record among all backbone-nitrogen records of the file,
\* the residues discarded by the confidence or amino-acid filter counted; so
\* the indices strictly increase in file order and are unique.
C18_AbsoluteIndexIsFilePosition ==
    /\ \A k \in 1..Len(StoredResidues) :
         /\ LineOf(StoredResidues[k].atoms[1]).atm = "N"
         /\ StoredResidues[k].a_ix = AbsIndexOfLine(StoredResidues[k].atoms[1].ln)
    /\ \A j, k \in 1..Len(StoredResidues) :
         j < k => StoredResidues[j].a_ix < StoredResidues[k].a_ix

\* C18 witness: the second of three residues was discarded by the amino-acid
\* filter and the residue after it was stored with absolute index 3.
C18_Witness ==
    /\ structure.err = ""
    /\ params.valid_aas = {"K"}
    /\ Len(StoredResidues) = 2
    /\ StoredResidues[2].a_ix = 3
    /\ Len(contacts) >= 1

\* residues k of chain i and k2 of chain i2 have a pair of atoms whose
\* squared distance is strictly less than max_distance squared
SomeAtomsCloser(i, k, i2, k2) ==
    \E a \in 1..Len(structure.residues[i][k].atoms) :
      \E b \in 1..Len(structure.residues[i2][k2].atoms) :
        dist2(structure.residues[i][k].atoms[a].xyz, structure.residues[i2][k2].atoms[b].xyz)
            < params.max_distance * params.max_distance

\* the broad-phase candidates of all pairs of different chains
Candidates ==
    UNION {{<<i, index_pairs(structure, i, i2, params.max_distance)[p][1],
              i2, index_pairs(structure, i, i2, params.max_distance)[p][2]>>
              : p \in 1..Len(index_pairs(structure, i, i2, params.max_distance))}
             : <<i, i2>> \in {q \in (1..Len(structure.chains)) \X (1..Len(structure.chains))
                                : q[1] < q[2]}}

\* C19: a broad-phase candidate pair of two different chains is reported as
\* a contact if and only if the minimum squared distance over all atom pairs
\* of the two residues is strictly less than max_distance squared, and each
\* such pair is reported once.
C19_ReportedIffCloser ==
    (structure.err = "" /\ pc \in {"filter", "returned", "raised"}) =>
      /\ \A c \in Candidates :
           Reported(c[1], c[2], c[3], c[4]) <=> SomeAtomsCloser(c[1], c[2], c[3], c[4])
      /\ Len(contacts)
           = Cardinality({c \in Candidates : SomeAtomsCloser(c[1], c[2], c[3], c[4])})

\* C19 witness: the two residues 5 Angstroms apart, confidence 90, cutoff 8,
\* threshold 50, no matrix: exactly one contact, at distance 5.0.
C19_Witness ==
    /\ pdb_filename = TwoResidues /\ pae_filename.empty
    /\ params.max_distance = 8 /\ params.min_plddt = 50
    /\ pc = "returned" /\ error = ""
    /\ Len(contacts) = 1
    /\ contacts[1].distance = 50
    /\ FilteredKeys(filtered_contacts) = {<<<<"A", "B">>, <<1, 2>>>>}

\* the length of the matrix payload, flattened, and whether it is a perfect
\* square
PayloadLength == Len(Concat(pae_filename.rows))
PayloadIsSquare == \E k \in 0..PayloadLength : k * k = PayloadLength

\* the call of get_contacts is over
CallOver == pc \in {"returned", "raised"}

\* C20, as claimed: a call with a matrix whose payload length is no perfect
\* square fails with the malformed-matrix error, whatever the structure.
C20_MalformedMatrixAlwaysRaises ==
    (CallOver /\ ~pae_filename.empty /\ ~PayloadIsSquare) =>
      /\ pc = "raised"
      /\ error = "ValueError: pAE values could not be parsed"

\* C20, amended: a call with a matrix whose payload length is no perfect
\* square fails with the malformed-matrix error, before any cell is read,
\* when the model numbers are accepted and at least one geometric contact is
\* found; it fails with the model-number error when they are not, with the
\* parser's error when the structure does not parse, and returns the empty
\* result when no geometric contact is found.
C20_MalformedMatrixRaisesOnContacts ==
    (CallOver /\ ~pae_filename.empty /\ ~PayloadIsSquare) =>
      /\ pae_reads = {}
      /\ filtered_contacts = EmptyDict
      /\ IF BadModelNumbers
         THEN pc = "raised" /\ error \in {"ValueError: invalid model number",
                                          "ValueError: File mismatch"}
         ELSE IF structure.err # ""
         THEN pc = "raised" /\ error = structure.err
         ELSE IF contacts = <<>>
         THEN pc = "returned" /\ error = ""
         ELSE pc = "raised" /\ error = "ValueError: pAE values could not be parsed"

\* C20 witness: a structure with two geometric contacts and a payload of five
\* values: the call raised the malformed-matrix error.
C20_Witness ==
    /\ CallOver /\ ~pae_filename.empty /\ PayloadLength = 5
    /\ ~BadModelNumbers
    /\ Len(contacts) = 2
    /\ pc = "raised"
    /\ error = "ValueError: pAE values could not be parsed"
    /\ pae_reads = {}

----------------------------------------------------------------------------
\* summarize_interface_statistics on the contact sets of the models of one
\* complex

MaxSumModels == 4   \* models 1..MaxSumModels, each analysed or not

\* the contacts that a model may hold, by absolute index pair
SummaryIds == {<<1, 3>>, <<2, 3>>}

\* Two chain layouts of the same three residues: in layout 1 the residues 1
\* and 2 are chain A and residue 3 is chain B; in layout 2 the residues are
\* the chains A, B and C.
ChainOf(layout, a_ix) ==
    IF layout = 1 THEN (IF a_ix <= 2 THEN "A" ELSE "B")
    ELSE (IF a_ix = 1 THEN "A" ELSE IF a_ix = 2 THEN "B" ELSE "C")

\* a contact as get_contacts records it
SummaryContact(model_num, layout, id) ==
    [chains |-> <<ChainOf(layout, id[1]), ChainOf(layout, id[2])>>,
     inchain_indices |-> <<1, 1>>,
     types |-> <<"K", "K">>,
     pae |-> 0,
     paes |-> <<0, 0>>,
     plddts |-> <<90, 90>>,
     model |-> model_num,
     distance |-> 30]

\* the dict that get_contacts returns for a model with the contacts ids
ModelContacts(model_num, layout, ids) ==
    LET pairs == {<<ChainOf(layout, id[1]), ChainOf(layout, id[2])>> : id \in ids}
    IN  [cc \in pairs |->
          [id \in {x \in ids : <<ChainOf(layout, x[1]), ChainOf(layout, x[2])>> = cc}
              |-> SummaryContact(model_num, layout, id)]]

\* every dict 'interfaces' over a subset of the models
SummaryInputs ==
    UNION {[ms -> {ModelContacts(0, layout, ids) : layout \in {1, 2},
                                                   ids \in SUBSET SummaryIds}]
             : ms \in SUBSET (1..MaxSumModels)}

InitSummary ==
    /\ DistributeIdle
    /\ StatsIdle
    /\ spc = "start"
    /\ interfaces \in SummaryInputs
    /\ stats = EmptyDict
    /\ ContactsIdle
    /\ params = Params(8, 50, 15, "min", {})
    /\ BatchIdle
    /\ ScoreIdle

\* lines 592-641
Summarize ==
    /\ spc = "start"
    /\ stats' = summarize_interface_statistics(interfaces)
    /\ spc' = "done"
    /\ UNCHANGED <<interfaces, cvars, bvars, qvars, dvars, ivars>>

NextSummary == Summarize

SpecSummary == InitSummary /\ [][NextSummary]_vars

----------------------------------------------------------------------------
\* Claims about summarize_interface_statistics (SpecSummary)

\* C7: for any per-model contact sets, the reported maximum reproduction
\* count is at most the number of models, and the reported average
\* reproduction count is at most the reported maximum.
C7_CountsBounded ==
    spc = "done" =>
        /\ stats.max_n_models <= Cardinality(DOMAIN interfaces)
        /\ stats.avg_n_models <= 10 * stats.max_n_models

\* three models, a contact in all of them and another in fewer
C7_Witness ==
    /\ spc = "done"
    /\ Cardinality(DOMAIN interfaces) = 3
    /\ stats.max_n_models = 3
    /\ stats.num_unique_contacts = 2
    /\ stats.avg_n_models < 10 * stats.max_n_models

\* the contact ids of model m, under every chain pair
IdsOfModel(m) == UNION {DOMAIN interfaces[m][cc] : cc \in DOMAIN interfaces[m]}

\* the (chain pair, contact id) keys of model m
KeysOfModel(m) ==
    UNION {{<<cc, id>> : id \in DOMAIN interfaces[m][cc]} : cc \in DOMAIN interfaces[m]}

\* 'stats' reports the counts 'count' of the distinct contacts 'keys': their
\* number, the maximum count, the number of contacts that attain it, and the
\* mean count to the nearest tenth
ReportsCounts(keys, count) ==
    LET n == Cardinality(keys)
        total == SumOver(count, keys)
        d == 10 * total - n * stats.avg_n_models
    IN  /\ stats.num_unique_contacts = n
        /\ \A k \in keys : count[k] <= stats.max_n_models
        /\ stats.num_contacts_with_max_n_models
              = Cardinality({k \in keys : count[k] = stats.max_n_models})
        /\ IF n = 0
           THEN stats.max_n_models = 0 /\ stats.avg_n_models = 0
           ELSE /\ \E k \in keys : count[k] = stats.max_n_models
                /\ 2 * d <= n /\ -2 * d <= n

\* C8 as stated: summarize_interface_statistics counts, for each distinct
\* contact identified by its chain pair plus absolute-index pair, the number
\* of models whose contact set contains it, and reports the maximum, the
\* average, the number of contacts at the maximum and the number of distinct
\* contacts.
C8_CountsByChainPairAndIndex ==
    spc = "done" =>
        LET keys == UNION {KeysOfModel(m) : m \in DOMAIN interfaces}
            count == [k \in keys |->
                        Cardinality({m \in DOMAIN interfaces : k \in KeysOfModel(m)})]
        IN  ReportsCounts(keys, count)

\* C8, amended: the contact is identified by its absolute-index pair alone;
\* the count of an index pair is the number of models whose contact set
\* contains it under any chain pair.
C8_CountsByIndexPair ==
    spc = "done" =>
        LET keys == UNION {IdsOfModel(m) : m \in DOMAIN interfaces}
            count == [k \in keys |->
                        Cardinality({m \in DOMAIN interfaces : k \in IdsOfModel(m)})]
        IN  ReportsCounts(keys, count)

\* one contact key present in three of four models and no other contact:
\* max 3, average 3, count-at-max 1, distinct 1
C8_Witness ==
    /\ spc = "done"
    /\ DOMAIN interfaces = 1..4
    /\ \E id \in SummaryIds, m0 \in 1..4 :
          /\ IdsOfModel(m0) = {}
          /\ \A m \in (1..4) \ {m0} : KeysOfModel(m) = {<<<<"A", "B">>, id>>}
    /\ stats = [max_n_models |-> 3, avg_n_models |-> 30,
                num_contacts_with_max_n_models |-> 1, num_unique_contacts |-> 1]

----------------------------------------------------------------------------
\* analyze_complexes: the analysis of one model

\* faulty variant: as many groups as bins, however short the list
distribute_no_min(lst, n_bins) ==
    IF n_bins < 1 THEN [err |-> "ValueError: bins", lists |-> <<>>]
    ELSE [err |-> "",
          lists |-> [b \in 1..n_bins |->
                       SelectSeq([i \in 1..Len(lst) |-> <<i, lst[i]>>],
                                 LAMBDA x : (x[1] - 1) % n_bins = b - 1)]]

\* faulty variant: the items go to the groups two by two
distribute_by_twos(lst, n_bins) ==
    IF n_bins < 1 THEN [err |-> "ValueError: bins", lists |-> <<>>]
    ELSE LET n == Min(n_bins, Len(lst))
         IN  [err |-> "",
              lists |-> [b \in 1..n |->
                           SelectSeq([i \in 1..Len(lst) |-> <<i, lst[i]>>],
                                     LAMBDA x : ((x[1] - 1) \div 2) % n = b - 1)]]

\* distribute(lst, n_bins)
distribute(lst, n_bins) ==
    IF n_bins < 1 THEN [err |-> "ValueError: bins", lists |-> <<>>]
    ELSE LET n == Min(n_bins, Len(lst))
         IN  [err |-> "",
              lists |-> [b \in 1..n |->
                           SelectSeq([i \in 1..Len(lst) |-> <<i, lst[i]>>],
                                     LAMBDA x : (x[1] - 1) % n = b - 1)]]

\* the items of the groups, without their positions
distributed_lists(lst, n_bins) ==
    LET d == distribute(lst, n_bins).lists
    IN  [b \in 1..Len(d) |-> [k \in 1..Len(d[b]) |-> d[b][k][2]]]

\* name_filter in x, for strings as sequences of characters
Contains(x, name_filter) ==
    \E i \in 0..(Len(x) - Len(name_filter)) :
        \A k \in 1..Len(name_filter) : x[i + k] = name_filter[k]

\* the file name starts with the complex name: glob(complex_name + '*.ext')
StartsWith(name, complex_name) ==
    /\ Len(complex_name) <= Len(name)
    /\ \A k \in 1..Len(complex_name) : name[k] = complex_name[k]

\* get_filepaths_for_complex: the files of the folder, in sorted order, whose
\* name starts with complex_name and ends with the extension
get_filepaths_for_complex(files, complex_name, ext) ==
    SelectSeq(files, LAMBDA f : f.ext = ext /\ StartsWith(f.name, complex_name))

RECURSIVE InsertByModelNum(_, _)
\* insert f after the files whose model number is not greater
InsertByModelNum(sorted, f) ==
    IF sorted = <<>> THEN <<f>>
    ELSE IF get_af_model_num(Head(sorted)) <= get_af_model_num(f)
         THEN <<Head(sorted)>> \o InsertByModelNum(Tail(sorted), f)
    ELSE <<f>> \o sorted

RECURSIVE SortByModelNum(_)
\* list.sort(key=get_af_model_num): stable, ascending
SortByModelNum(files) ==
    IF files = <<>> THEN <<>>
    ELSE InsertByModelNum(SortByModelNum(SubSeq(files, 1, Len(files) - 1)),
                          files[Len(files)])

\* zip(pdb_filepaths, pae_filepaths)
Zip(a, b) == [k \in 1..Min(Len(a), Len(b)) |-> <<a[k], b[k]>>]

\* complex_name: the folder's base name, or for a folder named 'predictions'
\* the path two levels up; each as its pieces between the '_' characters
complex_name_of(folder) ==
    IF folder.basename = <<"predictions">> THEN folder.grandparent ELSE folder.basename

RECURSIVE SortedIds(_)
\* contact ids in the order the detection loops produce them: ascending
SortedIds(ids) ==
    IF ids = {} THEN <<>>
    ELSE LET m == CHOOSE x \in ids :
                    \A y \in ids : x[1] < y[1] \/ (x[1] = y[1] /\ x[2] <= y[2])
         IN  <<m>> \o SortedIds(ids \ {m})

\* the rows appended to all_contacts for one model
contact_rows(complex_name, model_num, filtered) ==
    LET ids == UNION {{<<cc, id>> : id \in DOMAIN filtered[cc]} : cc \in DOMAIN filtered}
        order == SortedIds({x[2] : x \in ids})
        ccOf(id) == CHOOSE cc \in DOMAIN filtered : id \in DOMAIN filtered[cc]
    IN  [k \in 1..Len(order) |->
          LET c == filtered[ccOf(order[k])][order[k]]
          IN  [complex_name |-> complex_name, model_num |-> model_num,
               aa1_chain |-> c.chains[1], aa1_index |-> c.inchain_indices[1],
               aa1_type |-> c.types[1], aa1_plddt |-> c.plddts[1],
               aa2_chain |-> c.chains[2], aa2_index |-> c.inchain_indices[2],
               aa2_type |-> c.types[2], aa2_plddt |-> c.plddts[2],
               pae |-> c.pae, min_distance |-> c.distance]]

PairInit == [err |-> "", pairs |-> EmptyDict,
             model_total_pdockq |-> 0, model_total_plddt |-> 0, model_total_pae |-> 0]

\* the body of the loops over i and i2, for the chain pair (i, i2)
ChainPairStats(acc, pdb, chain_list, chain_list_lbl, filtered, i, i2) ==
    IF acc.err # "" THEN acc
    ELSE IF i > Len(chain_list_lbl) \/ i2 > Len(chain_list_lbl)
    THEN [acc EXCEPT !.err = "IndexError: chain label"]
    ELSE
      LET chain_idx == <<chain_list[i], chain_list[i2]>>
          chain_lbl == <<chain_list_lbl[i], chain_list_lbl[i2]>>
          st == calculate_interface_statistics(chain_idx, filtered)
          q == IF st.num_contacts > 0 THEN get_pdockq_elofsson(pdb, chain_idx)
               ELSE [err |-> "", pdockq |-> 0]
      IN  IF q.err # "" THEN [acc EXCEPT !.err = q.err]
          ELSE [err |-> "",
                pairs |-> Put(acc.pairs, chain_lbl,
                              [num_contacts |-> st.num_contacts, plddt |-> st.plddt,
                               pae |-> st.pae, distance_avg |-> st.distance_avg,
                               pdockq |-> q.pdockq]),
                model_total_pdockq |-> acc.model_total_pdockq + q.pdockq,
                model_total_plddt |-> acc.model_total_plddt + st.plddt[2],
                model_total_pae |-> acc.model_total_pae + st.pae[2]]

RECURSIVE ChainPairLoop(_, _, _, _, _, _, _)
ChainPairLoop(acc, pdb, chain_list, chain_list_lbl, filtered, pairs, k) ==
    IF k > Len(pairs) THEN acc
    ELSE ChainPairLoop(ChainPairStats(acc, pdb, chain_list, chain_list_lbl, filtered,
                                      pairs[k][1], pairs[k][2]),
                       pdb, chain_list, chain_list_lbl, filtered, pairs, k + 1)

\* lines 780-783: the three means of a model with n chains, as the totals
\* over the chain pairs divided by len(chain_list), kept as fractions; r is
\* what get_contacts returned, acc what the loops over the chain pairs left
model_statistics(r, acc, n) ==
    IF r.err # "" \/ acc.err # "" \/ n = 0
    THEN [err |-> IF r.err # "" THEN r.err
                  ELSE IF acc.err # "" THEN acc.err
                  ELSE "ZeroDivisionError",
          returned |-> (r.err = ""), contacts |-> r.filtered, total |-> 0,
          if_stats |-> None]
    ELSE [err |-> "",
          returned |-> TRUE,
          contacts |-> r.filtered,
          total |-> acc.model_total_pdockq,
          if_stats |-> [pairs |-> acc.pairs,
                        model_all_avg_pdockq |->
                            [num |-> acc.model_total_pdockq, den |-> n],
                        model_all_avg_plddt |->
                            [num |-> acc.model_total_plddt, den |-> n],
                        model_all_avg_pae |->
                            [num |-> acc.model_total_pae, den |-> n]]]

\* lines 741-783: the statistics of every chain pair of the model, then its means
chain_pair_statistics(pdb, chain_list, chain_list_lbl, r) ==
    model_statistics(r,
                     ChainPairLoop(PairInit, pdb, chain_list, chain_list_lbl, r.filtered,
                                   SelectSeq(RowMajor(Len(chain_list), Len(chain_list)),
                                             LAMBDA x : x[1] < x[2]),
                                   1),
                     Len(chain_list))

\* The body of the loop over the models: [err, returned, contacts, total,
\* if_stats]; 'returned' tells whether get_contacts returned before the error.
analyze_model(pdb, pae, chain_list_lbl, p) ==
    chain_pair_statistics(pdb, get_chain_list_names(pdb), chain_list_lbl,
                          get_contacts(pdb, pae, p.max_distance, p.min_plddt, p.max_pae,
                                       p.pae_mode, p.valid_aas))

\* model_total_pdockq > best_interface_stats['model_all_avg_pdockq']
replaces_best(model_total_pdockq, best) ==
    model_total_pdockq * best.model_all_avg_pdockq.den > best.model_all_avg_pdockq.num

----------------------------------------------------------------------------
\* Inputs of analyze_folder

MaxComplexes == 2   \* .done markers in the folder
MaxCpus == 2        \* mp.cpu_count()
MaxModels == 3      \* models predicted for a complex

\* complex names, as characters, in sorted order
Names == << <<"p">>, <<"p", "q">>, <<"q">> >>

\* one residue (N and CB at the same place) of every chain, the chains at the
\* heights ys
Multimer(ys, b) ==
    Concat([k \in 1..Len(ys) |->
              ResidueLines("LYS", <<"A", "B", "C", "D">>[k], 1, ys[k], 0, 0, b, b)])

\* two chains of two residues, 'gap' apart within the chain, chain B at height y
Dimer(gap, y, b) ==
    ResidueLines("LYS", "A", 1, 0, 0, 0, b, b) \o ResidueLines("LYS", "A", 2, 0, gap, gap, b, b)
      \o ResidueLines("LYS", "B", 1, y, 0, 0, b, b)
      \o ResidueLines("LYS", "B", 2, y, gap, gap, b, b)

\* the structures by kind: dimers with four, four less confident, two and no
\* CB contacts; three chains all in contact or in a row; four chains; one
\* chain; no ATOM record at all
KindLines(kind) ==
    CASE kind = "hi" -> Dimer(7, 3, 90)
      [] kind = "mid" -> Dimer(7, 3, 60)
      [] kind = "lo" -> Dimer(14, 3, 90)
      [] kind = "none" -> Dimer(7, 60, 90)
      [] kind = "ragged" -> Dimer(7, 3, 90)
      [] kind = "badtag" -> Dimer(7, 3, 90)
      [] kind = "trimer" -> Multimer(<<0, 3, 6>>, 90)
      [] kind = "row" -> Multimer(<<0, 6, 12>>, 90)
      [] kind = "tetramer" -> Multimer(<<0, 3, 6, 9>>, 90)
      [] kind = "monomer" -> Multimer(<<0>>, 90)
      [] kind = "empty" -> <<TerLine>>

DimerKinds == {"hi", "mid", "lo", "none", "ragged"}
MultimerKinds == {"trimer", "row", "tetramer", "monomer", "empty"}

\* the number of residues of a structure
NumResidues(lines) == Len(SelectSeq(lines, LAMBDA l : l.rec = "ATOM" /\ l.atm = "N"))

\* the matrix that comes with a structure: square with every cell 5, but of
\* rows of different lengths for the kind "ragged"
KindRows(kind) ==
    IF kind = "ragged" THEN Ragged
    ELSE [r \in 1..NumResidues(KindLines(kind)) |->
            [c \in 1..NumResidues(KindLines(kind)) |-> 5]]

\* the two files of model k of the complex 'name'; the matrix file of the
\* kind "badtag" has no model number in its name
ModelFiles(name, k, kind) ==
    << [name |-> name, ext |-> "pdb", empty |-> FALSE, tag |-> <<k>>,
        lines |-> KindLines(kind), rows |-> <<>>],
       [name |-> name, ext |-> "json", empty |-> FALSE,
        tag |-> IF kind = "badtag" THEN NoTag ELSE <<k>>,
        lines |-> <<>>, rows |-> KindRows(kind)] >>

\* the files of a complex whose models are of the kinds 'kinds', listed from
\* the last model to the first; 'json' tells whether the matrices were kept
ComplexFiles(name, kinds, json) ==
    SelectSeq(Concat([k \in 1..Len(kinds) |->
                        ModelFiles(name, Len(kinds) + 1 - k, kinds[Len(kinds) + 1 - k])]),
              LAMBDA f : json \/ f.ext = "pdb")

\* what a complex of a batch may look like: two good models, a model whose
\* matrix belongs to another model, no file at all, a structure without its matrix
BatchLibrary ==
    {[kinds |-> <<"hi", "lo">>, json |-> TRUE], [kinds |-> <<"badtag">>, json |-> TRUE],
     [kinds |-> <<>>, json |-> TRUE], [kinds |-> <<"hi">>, json |-> FALSE]}

Folder(basename, files, done, cpu_count, name_filter, ignore_pae) ==
    [basename |-> basename, grandparent |-> <<"/d/P1", "P2", "P3">>, files |-> files,
     done |-> done, cpu_count |-> cpu_count, name_filter |-> name_filter,
     ignore_pae |-> ignore_pae]

\* the .done markers, in the order glob lists them: any distinct names
DoneLists ==
    {d \in UNION {[1..n -> {Names[k] : k \in 1..Len(Names)}] : n \in 0..MaxComplexes} :
        \A i, j \in 1..Len(d) : i # j => d[i] # d[j]}

\* Family 1: several complexes, each out of the library
BatchFolders ==
    UNION {
      {Folder(<<"P1", "P2">>,
              Concat([k \in 1..Len(Names) |->
                        IF \E i \in 1..Len(d) : d[i] = Names[k]
                        THEN ComplexFiles(Names[k], lib[Names[k]].kinds, lib[Names[k]].json)
                        ELSE <<>>]),
              d, cpus, name_filter, FALSE)
         : lib \in [{d[i] : i \in 1..Len(d)} -> BatchLibrary],
           cpus \in 1..MaxCpus, name_filter \in {<<>>, <<"q">>}}
      : d \in DoneLists}

\* Family 2: one complex, its models of any kinds
ModelFolders ==
    {Folder(basename, ComplexFiles(Names[1], kinds, TRUE), <<Names[1]>>, 1, <<>>, ignore_pae)
       : basename \in {<<"P1", "P2">>, <<"P1", "P2", "P3", "P4">>, <<"predictions">>},
         kinds \in UNION {[1..n -> DimerKinds] \cup [1..n -> MultimerKinds]
                            : n \in 1..MaxModels},
         ignore_pae \in BOOLEAN}

InitBatch ==
    /\ DistributeIdle
    /\ StatsIdle
    /\ ContactsIdle
    /\ params = Params(8, 50, 15, "min", {})
    /\ SummaryIdle
    /\ ScoreIdle
    /\ fpc = "start"
    /\ data_folder \in BatchFolders \cup ModelFolders
    /\ complex_name_lists = <<>>
    /\ index = 0
    /\ zipped = <<>>
    /\ interface_contacts = EmptyDict
    /\ best_interface_stats = None
    /\ summary_stats = EmptyDict
    /\ all_interface_stats = <<>>
    /\ all_contacts = <<>>
    /\ output_folder = EmptyDict
    /\ exception = ""
    /\ visited = <<>>

----------------------------------------------------------------------------
\* analyze_folder and analyze_complexes, step by step

\* the group that analyze_complexes is called with
complexes == complex_name_lists[1]

complex_name == complex_name_of(data_folder)

\* lines 898-940: find the finished complexes, filter them by name, split
\* them over the CPUs and call analyze_complexes(0, ..., complex_name_lists[0])
AnalyzeFolder ==
    /\ fpc = "start"
    /\ LET complex_names ==
               IF Len(data_folder.name_filter) > 0
               THEN SelectSeq(data_folder.done,
                              LAMBDA x : Contains(x, data_folder.name_filter))
               ELSE data_folder.done
           num_cpus_to_use == Min(data_folder.cpu_count, Len(complex_names))
       IN  IF Len(complex_names) < 1
           THEN /\ fpc' = "done"
                /\ UNCHANGED <<complex_name_lists, index>>
           ELSE /\ complex_name_lists' = distributed_lists(complex_names, num_cpus_to_use)
                /\ index' = 1
                /\ fpc' = "complex"
    /\ UNCHANGED <<data_folder, zipped, interface_contacts, best_interface_stats,
                   summary_stats, all_interface_stats, all_contacts, output_folder,
                   exception, visited>>
    /\ UNCHANGED <<cvars, svars, qvars, dvars, ivars>>

\* lines 665-710: the head of the loop over the complexes: find the files of
\* the next complex, skip it if they are missing, else sort and pair them
NextComplex ==
    /\ fpc = "complex"
    /\ index <= Len(complexes)
    /\ LET cname == complexes[index]
           pdb_filepaths == get_filepaths_for_complex(data_folder.files, cname, "pdb")
           pae_filepaths == IF data_folder.ignore_pae THEN <<>>
                            ELSE get_filepaths_for_complex(data_folder.files, cname, "json")
       IN  /\ visited' = Append(visited, cname)
           /\ IF \/ Len(pdb_filepaths) < 1
                 \/ (~data_folder.ignore_pae /\ Len(pdb_filepaths) # Len(pae_filepaths))
              THEN /\ index' = index + 1
                   /\ UNCHANGED <<fpc, zipped, interface_contacts, best_interface_stats>>
              ELSE /\ zipped' = Zip(SortByModelNum(pdb_filepaths),
                                    IF data_folder.ignore_pae
                                    THEN [k \in 1..Len(pdb_filepaths) |-> EmptyName]
                                    ELSE SortByModelNum(pae_filepaths))
                   /\ interface_contacts' = EmptyDict
                   /\ best_interface_stats' = None
                   /\ fpc' = "model"
                   /\ UNCHANGED index
    /\ UNCHANGED <<data_folder, complex_name_lists, summary_stats, all_interface_stats,
                   all_contacts, output_folder, exception>>
    /\ UNCHANGED <<cvars, svars, qvars, dvars, ivars>>

\* lines 712-799: the body of the loop over the models of the complex.  No
\* exception is handled: one raised here leaves analyze_complexes and
\* analyze_folder.
AnalyzeModel ==
    /\ fpc = "model"
    /\ zipped # <<>>
    /\ LET pdb == Head(zipped)[1]
           pae == Head(zipped)[2]
           model_num == get_af_model_num(pdb)
       IN  \E a \in {analyze_model(pdb, pae, complex_name, params)} :
           /\ interface_contacts' = IF a.returned
                                    THEN Put(interface_contacts, model_num, a.contacts)
                                    ELSE interface_contacts
           /\ all_contacts' = IF a.returned
                              THEN all_contacts
                                     \o contact_rows(complex_name, model_num, a.contacts)
                              ELSE all_contacts
           /\ IF a.err # ""
              THEN /\ exception' = a.err
                   /\ fpc' = "crashed"
                   /\ UNCHANGED <<zipped, best_interface_stats, all_interface_stats>>
              ELSE /\ best_interface_stats' =
                          IF \/ best_interface_stats = None
                             \/ replaces_best(a.total, best_interface_stats.if_stats)
                          THEN [if_stats |-> a.if_stats, model_num |-> model_num]
                          ELSE best_interface_stats
                   /\ all_interface_stats' =
                          Append(all_interface_stats,
                                 [complex_name |-> complex_name, model_num |-> model_num,
                                  if_stats |-> a.if_stats])
                   /\ zipped' = Tail(zipped)
                   /\ UNCHANGED <<fpc, exception>>
    /\ UNCHANGED <<data_folder, complex_name_lists, index, summary_stats, output_folder,
                   visited>>
    /\ UNCHANGED <<cvars, svars, qvars, dvars, ivars>>

\* lines 812-823: after the last model, the summary of the complex
FinishComplex ==
    /\ fpc = "model"
    /\ zipped = <<>>
    /\ LET st == summarize_interface_statistics(interface_contacts)
           best == best_interface_stats
       IN  summary_stats' =
               Put(summary_stats, complex_name,
                   [max_n_models |-> st.max_n_models,
                    avg_n_models |-> st.avg_n_models,
                    num_contacts_with_max_n_models |-> st.num_contacts_with_max_n_models,
                    num_unique_contacts |-> st.num_unique_contacts,
                    best_model_num |-> best.model_num,
                    best_avg_pdockq |-> best.if_stats.model_all_avg_pdockq,
                    best_avg_plddt |-> best.if_stats.model_all_avg_plddt,
                    best_avg_pae |-> best.if_stats.model_all_avg_pae])
    /\ index' = index + 1
    /\ fpc' = "complex"
    /\ UNCHANGED <<data_folder, complex_name_lists, zipped, interface_contacts,
                   best_interface_stats, all_interface_stats, all_contacts,
                   output_folder, exception, visited>>
    /\ UNCHANGED <<cvars, svars, qvars, dvars, ivars>>

\* the rows of the summary report: one per key of summary_stats
summary_rows ==
    LET keys == DOMAIN summary_stats
        RECURSIVE rows(_)
        rows(ks) == IF ks = {} THEN <<>>
                    ELSE LET k == CHOOSE x \in ks : TRUE
                         IN  <<[complex_name |-> k, stats |-> summary_stats[k]]>>
                               \o rows(ks \ {k})
    IN  rows(keys)

\* lines 825-852: after the last complex, write the reports of CPU 0, or
\* nothing when no complex was summarised
WriteReports ==
    /\ fpc = "complex"
    /\ index > Len(complexes)
    /\ output_folder' =
          IF Cardinality(DOMAIN summary_stats) < 1 THEN output_folder
          ELSE LET o1 == Put(output_folder, <<"summary", 0>>, summary_rows)
                   o2 == Put(o1, <<"interfaces", 0>>, all_interface_stats)
               IN  IF Len(all_contacts) > 0
                   THEN Put(o2, <<"contacts", 0>>, all_contacts) ELSE o2
    /\ fpc' = "merge"
    /\ UNCHANGED <<data_folder, complex_name_lists, index, zipped, interface_contacts,
                   best_interface_stats, summary_stats, all_interface_stats,
                   all_contacts, exception, visited>>
    /\ UNCHANGED <<cvars, svars, qvars, dvars, ivars>>

RECURSIVE SortByAvgDesc(_)
\* sort_values(by='avg_n_models', ascending=False)
SortByAvgDesc(rows) ==
    IF rows = <<>> THEN <<>>
    ELSE LET k == CHOOSE i \in 1..Len(rows) :
                    \A j \in 1..Len(rows) :
                        rows[i].stats.avg_n_models >= rows[j].stats.avg_n_models
         IN  <<rows[k]>> \o SortByAvgDesc(SubSeq(rows, 1, k - 1)
                                           \o SubSeq(rows, k + 1, Len(rows)))

\* join_csv_files over the per-CPU files of one report, then their removal
merge_report(folder, name) ==
    LET cpus == {k \in DOMAIN folder : Len(k) = 2 /\ k[1] = name}
        RECURSIVE joined(_)
        joined(ks) == IF ks = {} THEN <<>>
                      ELSE LET k == CHOOSE x \in ks : \A y \in ks : x[2] <= y[2]
                           IN  folder[k] \o joined(ks \ {k})
        combo == IF name = "summary" THEN SortByAvgDesc(joined(cpus)) ELSE joined(cpus)
    IN  IF cpus = {} THEN folder
        ELSE [k \in ((DOMAIN folder) \ cpus) \cup {<<name>>} |->
                IF k = <<name>> THEN combo ELSE folder[k]]

\* lines 943-962: merge the per-CPU reports
MergeReports ==
    /\ fpc = "merge"
    /\ output_folder' = merge_report(merge_report(merge_report(output_folder, "summary"),
                                                  "interfaces"), "contacts")
    /\ fpc' = "done"
    /\ UNCHANGED <<data_folder, complex_name_lists, index, zipped, interface_contacts,
                   best_interface_stats, summary_stats, all_interface_stats,
                   all_contacts, exception, visited>>
    /\ UNCHANGED <<cvars, svars, qvars, dvars, ivars>>

NextBatch ==
    \/ AnalyzeFolder
    \/ NextComplex
    \/ AnalyzeModel
    \/ FinishComplex
    \/ WriteReports
    \/ MergeReports

SpecBatch == InitBatch /\ [][NextBatch]_vars

----------------------------------------------------------------------------
\* Claims about analyze_folder and analyze_complexes (SpecBatch)

\* the complexes that pass the name filter, over all the groups
AllGrouped == Concat(complex_name_lists)

\* the number of times the loop over the complexes started on cname
TimesVisited(cname) == Cardinality({k \in 1..Len(visited) : visited[k] = cname})

\* C1: a failure raised while analyzing one complex is caught at the
\* complex-iteration boundary: no exception leaves the loop, the failed
\* complex is left out of the output, and every other complex of the batch
\* is still analyzed and reported.
C1_FailureIsCaught ==
    /\ fpc # "crashed"
    /\ exception = ""
    /\ fpc = "done" => \A k \in 1..Len(AllGrouped) : TimesVisited(AllGrouped[k]) >= 1

\* C2: every group made by the partitioning is processed by exactly one
\* worker: when the final merge begins, every complex that passed the name
\* filter has been analyzed or skipped exactly once.
C2_EveryGroupProcessed ==
    fpc \in {"merge", "done"} =>
        \A k \in 1..Len(AllGrouped) : TimesVisited(AllGrouped[k]) = 1

\* a/b < c/d for fractions with positive denominators
FracLess(x, y) == x.num * y.den < y.num * x.den

\* all the models of the first complex have been processed
FirstComplexAnalyzed == fpc = "model" /\ zipped = <<>> /\ index = 1

\* C3: after all the models of a complex have been processed in order, the
\* best model is the first-encountered model whose per-model average
\* interface score is maximal among the complex's models.
C3_BestIsFirstMaxAverage ==
    FirstComplexAnalyzed =>
        LET rows == all_interface_stats
            avg(k) == rows[k].if_stats.model_all_avg_pdockq
            first == CHOOSE k \in 1..Len(rows) :
                        /\ \A j \in 1..Len(rows) : ~FracLess(avg(k), avg(j))
                        /\ \A j \in 1..(k - 1) : FracLess(avg(j), avg(k))
        IN  best_interface_stats.model_num = rows[first].model_num

\* the sum of the field f of the chain pairs of a row (its middle value when
\* the field is a [min, avg, max] triple)
PairTotal(row, f) ==
    LET ps == row.if_stats.pairs
    IN  SumOver([k \in DOMAIN ps |-> IF f = "pdockq" THEN ps[k].pdockq
                                      ELSE IF f = "plddt" THEN ps[k].plddt[2]
                                      ELSE ps[k].pae[2]],
                DOMAIN ps)

\* the fraction x equals total / n
IsMean(x, total, n) == x.num * n = total * x.den

\* C4: for each model with at least two chains, the per-model averages (mean
\* interface score, mean confidence, mean error) equal the sum of the
\* per-chain-pair values divided by the number of chain pairs of the model.
C4_MeanOverChainPairs ==
    \A k \in 1..Len(all_interface_stats) :
        LET row == all_interface_stats[k]
            num_pairs == Cardinality(DOMAIN row.if_stats.pairs)
        IN  num_pairs >= 1 =>
              /\ IsMean(row.if_stats.model_all_avg_pdockq, PairTotal(row, "pdockq"), num_pairs)
              /\ IsMean(row.if_stats.model_all_avg_plddt, PairTotal(row, "plddt"), num_pairs)
              /\ IsMean(row.if_stats.model_all_avg_pae, PairTotal(row, "pae"), num_pairs)

\* C13: a chain pair without contacts is reported with contact count 0,
\* minimum confidence 0 and minimum error 0 (not the accumulation defaults 100
\* and 30), and its interface score is 0.
C13_EmptyInterfaceIsZero ==
    \A k \in 1..Len(all_interface_stats) :
        LET ps == all_interface_stats[k].if_stats.pairs
        IN  \A cp \in DOMAIN ps :
              ps[cp].num_contacts = 0 =>
                /\ ps[cp].plddt[1] = 0
                /\ ps[cp].pae[1] = 0
                /\ ps[cp].pdockq = 0

\* C13 witness: a model of three chains was analysed in which one chain pair
\* has contacts and another has none.
C13_Witness ==
    \E k \in 1..Len(all_interface_stats) :
        LET ps == all_interface_stats[k].if_stats.pairs
        IN  /\ \E cp \in DOMAIN ps : ps[cp].num_contacts = 0 /\ ps[cp].plddt[1] = 0
            /\ \E cp \in DOMAIN ps : ps[cp].num_contacts > 0 /\ ps[cp].pdockq > 0

\* the structure has no chain or one chain
FewerThanTwoChains(pdb) == Len(get_chain_list_names(pdb)) < 2

\* C21: a model whose structure has fewer than two chains is not an error:
\* the analysis never stops on such a model, get_contacts returns the empty
\* contact set for it, and the row of statistics recorded for it has no chain
\* pair and three means of zero.
C21_FewChainsIsNotAnError ==
    /\ fpc = "crashed" => ~FewerThanTwoChains(Head(zipped)[1])
    /\ \A k \in 1..Len(all_interface_stats) :
         LET st == all_interface_stats[k].if_stats
         IN  DOMAIN st.pairs = {} =>
               /\ st.model_all_avg_pdockq.num = 0
               /\ st.model_all_avg_plddt.num = 0
               /\ st.model_all_avg_pae.num = 0
    /\ \A m \in DOMAIN interface_contacts :
         (zipped # <<>> /\ FewerThanTwoChains(Head(zipped)[1])
            /\ m = get_af_model_num(Head(zipped)[1]))
           => interface_contacts[m] = EmptyDict

\* the complexes of the group that were analysed to the end: their loop
\* iteration is over and their files were neither missing nor mismatched
Completed ==
    {k \in 1..(index - 1) :
       LET pdbs == get_filepaths_for_complex(data_folder.files, complexes[k], "pdb")
           paes == get_filepaths_for_complex(data_folder.files, complexes[k], "json")
       IN  /\ Len(pdbs) >= 1
           /\ data_folder.ignore_pae \/ Len(pdbs) = Len(paes)}

\* C25: every complex analysed to the end has its own record in the summary:
\* between two complexes, the summary holds as many records as complexes
\* have been analysed to the end, so no record was overwritten by another
\* complex's.
C25_OneRecordPerComplex ==
    (fpc = "complex" /\ complex_name_lists # <<>>) =>
        Cardinality(DOMAIN summary_stats) = Cardinality(Completed)

----------------------------------------------------------------------------
\* get_pdockq_elofsson on the structure files of two chains

ScoreLevels == {0, 30, 60, 90, 100}     \* confidences of the residues

\* the x coordinates of the residues of chain A and of chain B (all atoms on
\* one line): representative atoms 8 apart are in contact, 9 apart are not
ScoreShapes ==
    { <<<<0>>, <<8>>>>, <<<<0>>, <<9>>>>, <<<<0>>, <<0, 8>>>>, <<<<0, 8>>, <<0, 8>>>>,
      <<<<0, 8>>, <<0, 16>>>>, <<<<0, 8>>, <<8, 30>>>>, <<<<0, 30>>, <<0, 30>>>>,
      <<<<0>>, <<>>>> }

\* the records of a chain whose residue k lies at xs[k] with confidence b[k]
ChainLines(chain, xs, b) ==
    Concat([k \in 1..Len(xs) |->
              ResidueLines("LYS", chain, k, 0, xs[k], xs[k], b[k], b[k])])

ScoreFile(shape, b) ==
    PdbFile(<<1>>, ChainLines("A", shape[1], SubSeq(b, 1, Len(shape[1])))
                   \o <<TerLine>>
                   \o ChainLines("B", shape[2],
                                 SubSeq(b, Len(shape[1]) + 1, Len(shape[1]) + Len(shape[2]))))

ScoreFiles == {ScoreFile(shape, b) : shape \in ScoreShapes, b \in [1..4 -> ScoreLevels]}

InitScore ==
    /\ DistributeIdle
    /\ StatsIdle
    /\ ContactsIdle
    /\ params = Params(8, 50, 15, "min", {})
    /\ SummaryIdle
    /\ BatchIdle
    /\ qpc = "start"
    /\ pdb_filepath \in ScoreFiles
    /\ if_chains = <<"A", "B">>
    /\ pdockq = 0

\* lines 267-318, and the caller's round(..., 3)
PdockqElofsson ==
    /\ qpc = "start"
    /\ \E q \in {get_pdockq_elofsson(pdb_filepath, if_chains)} :
         /\ pdockq' = q.pdockq
         /\ qpc' = IF q.err # "" THEN "raised" ELSE "returned"
    /\ UNCHANGED <<pdb_filepath, if_chains>>
    /\ UNCHANGED <<cvars, svars, bvars, dvars, ivars>>

NextScore == PdockqElofsson

SpecScore == InitScore /\ [][NextScore]_vars

\* the interface of the file, in the terms of the claim: the pairs of
\* representative atoms of the two chains at most 8 Angstroms apart, and the
\* confidences of the distinct residues that take part in one
IfAtoms(c) == representative_atoms(pdb_filepath, if_chains[c])
IfContacts ==
    {p \in (1..Len(IfAtoms(1))) \X (1..Len(IfAtoms(2))) :
        dist2(IfAtoms(1)[p[1]].xyz, IfAtoms(2)[p[2]].xyz) <= PDOCKQ_T * PDOCKQ_T}
IfResidues == {<<1, p[1]>> : p \in IfContacts} \cup {<<2, p[2]>> : p \in IfContacts}
IfPlddtSum == SumOver([r \in IfResidues |-> IfAtoms(r[1])[r[2]].bfactor], IfResidues)

\* the score does not decrease when the average confidence grows with the
\* number of contacts fixed, nor when the number of contacts grows with the
\* average fixed: the returned score compared with the curve at every
\* average s / c (s a multiple of 5, c residues) and every number n of contacts
ScoreMonotone ==
    LET n0 == Cardinality(IfContacts)
        c0 == Cardinality(IfResidues)
        s0 == IfPlddtSum
    IN  \A n \in 1..Len(PDOCKQ_STEPS) : \A c \in 2..4 : \A k \in 0..(20 * c) :
          LET s == 5 * k
              v == pdockq_curve(s, c, n)
          IN  /\ (n = n0 /\ s * c0 >= s0 * c) => v >= pdockq
              /\ (n = n0 /\ s * c0 <= s0 * c) => v <= pdockq
              /\ (s * c0 = s0 * c /\ n >= n0) => v >= pdockq
              /\ (s * c0 = s0 * c /\ n <= n0) => v <= pdockq

----------------------------------------------------------------------------
\* distribute on lists and bin counts of its own

MaxItems == 4   \* the longest list
MaxBins == 5    \* the largest n_bins

ItemNames == {"a", "b", "c"}

\* any list, the same item possibly several times
ItemLists == UNION {[1..n -> ItemNames] : n \in 0..MaxItems}

InitDistribute ==
    /\ ContactsIdle
    /\ params = Params(8, 50, 15, "min", {})
    /\ SummaryIdle
    /\ BatchIdle
    /\ ScoreIdle
    /\ StatsIdle
    /\ dpc = "start"
    /\ items \in ItemLists
    /\ bins \in -1..MaxBins
    /\ groups = <<>>

\* lines 70-89
Distribute ==
    /\ dpc = "start"
    /\ \E d \in {distribute(items, bins)} :
         /\ groups' = d.lists
         /\ dpc' = IF d.err # "" THEN "raised" ELSE "returned"
    /\ UNCHANGED <<items, bins>>
    /\ UNCHANGED <<cvars, svars, bvars, qvars, ivars>>

NextDistribute == Distribute

SpecDistribute == InitDistribute /\ [][NextDistribute]_vars

\* the places <<b, k>> of the groups at which position i of the list is found
PlacesOf(i) ==
    {p \in (1..Len(groups)) \X (1..Len(items)) :
       p[2] <= Len(groups[p[1]]) /\ groups[p[1]][p[2]] = <<i, items[i]>>}

\* C22: for n_bins >= 1 distribute returns exactly min(n_bins, len(lst))
\* groups, none of them empty; the item at (0-based) position i is in group
\* i mod the group count and nowhere else; every group keeps the order of the
\* list; for n_bins < 1 it raises.
C22_RoundRobinGroups ==
    /\ dpc = "raised" <=> (dpc # "start" /\ bins < 1)
    /\ dpc = "returned" =>
         /\ Len(groups) = Min(bins, Len(items))
         /\ \A b \in 1..Len(groups) : groups[b] # <<>>
         /\ \A i \in 1..Len(items) :
              /\ Cardinality(PlacesOf(i)) = 1
              /\ \A p \in PlacesOf(i) : p[1] - 1 = (i - 1) % Len(groups)
         /\ \A b \in 1..Len(groups) :
              /\ \A k \in 1..Len(groups[b]) : groups[b][k][1] \in 1..Len(items)
              /\ \A k \in 1..(Len(groups[b]) - 1) : groups[b][k][1] < groups[b][k + 1][1]

\* C22 witness: a list of four items was spread over three groups, the first
\* group holding the first and the last item.
C22_Witness ==
    /\ dpc = "returned"
    /\ Len(items) = 4
    /\ bins = 3
    /\ Len(groups) = 3
    /\ groups[1] = <<<<1, items[1]>>, <<4, items[4]>>>>

\* C23 as stated: all the groups that distribute returns have the same
\* number of items.
C23_GroupsEqualSized ==
    dpc = "returned" =>
        \A b1, b2 \in 1..Len(groups) : Len(groups[b1]) = Len(groups[b2])

\* C23: the sizes of any two groups that distribute returns differ by at
\* most one, and all groups have the same size exactly when the group count
\* divides the length of the list.
C23_GroupsEqualUpToOne ==
    (dpc = "returned" /\ Len(groups) > 0) =>
        /\ \A b1, b2 \in 1..Len(groups) :
             /\ Len(groups[b1]) - Len(groups[b2]) <= 1
             /\ Len(groups[b2]) - Len(groups[b1]) <= 1
        /\ (\A b1, b2 \in 1..Len(groups) : Len(groups[b1]) = Len(groups[b2]))
             <=> Len(items) % Len(groups) = 0

\* C23 witness: three items in two groups of two and of one.
C23_Witness ==
    /\ dpc = "returned"
    /\ Len(items) = 3
    /\ Len(groups) = 2
    /\ Len(groups[1]) = 2
    /\ Len(groups[2]) = 1

----------------------------------------------------------------------------
\* calculate_interface_statistics on contacts measured to two decimals, as
\* the structure and matrix files give them (here res = 10: the plddts of a
\* contact in tenths, its pae and distance and all statistics in hundredths)

MaxIfContacts == 2   \* the contacts of the interface

FinePlddts == {0, 873, 874, 1000}   \* 0, 87.3, 87.4 and 100
FinePaes == {0, 512, 3000}          \* 0, 5.12 and 30

\* the contacts of a chain pair: residue 1 of the first chain with the
\* residues 2, 3, ... of the second, 5.00 Angstroms apart
FineInterfaces ==
    UNION {[{<<1, 1 + k>> : k \in 1..n}
              -> [plddts : FinePlddts \X FinePlddts, pae : FinePaes, distance : {500}]]
             : n \in 0..MaxIfContacts}

InitStats ==
    /\ ContactsIdle
    /\ params = Params(8, 50, 15, "min", {})
    /\ SummaryIdle
    /\ BatchIdle
    /\ ScoreIdle
    /\ DistributeIdle
    /\ ipc = "start"
    /\ interface \in FineInterfaces
    /\ data = EmptyDict

\* lines 541-589, on interchain_contacts = interface
CalculateInterfaceStatistics ==
    /\ ipc = "start"
    /\ data' = interface_statistics(interface, 10)
    /\ ipc' = "returned"
    /\ UNCHANGED interface
    /\ UNCHANGED <<cvars, svars, bvars, qvars, dvars>>

NextStats == CalculateInterfaceStatistics

SpecStats == InitStats /\ [][NextStats]_vars

\* the confidence of a contact, in hundredths: the mean of its two plddts
ContactConfidence(id) == 5 * (interface[id].plddts[1] + interface[id].plddts[2])

\* the reported minima and maxima are those of the interface's contacts
TrueExtremes ==
    /\ \A id \in DOMAIN interface :
         /\ data.plddt[1] <= ContactConfidence(id)
         /\ ContactConfidence(id) <= data.plddt[3]
         /\ data.pae[1] <= interface[id].pae
         /\ interface[id].pae <= data.pae[3]
    /\ \E id \in DOMAIN interface : data.plddt[1] = ContactConfidence(id)
    /\ \E id \in DOMAIN interface : data.plddt[3] = ContactConfidence(id)
    /\ \E id \in DOMAIN interface : data.pae[1] = interface[id].pae
    /\ \E id \in DOMAIN interface : data.pae[3] = interface[id].pae

\* C24 as stated: for a non-empty interface both triples are ordered,
\* min <= avg <= max, and the minima and maxima are the true ones.
C24_TriplesOrdered ==
    (ipc = "returned" /\ DOMAIN interface # {}) =>
        /\ data.plddt[1] <= data.plddt[2]
        /\ data.plddt[2] <= data.plddt[3]
        /\ data.pae[1] <= data.pae[2]
        /\ data.pae[2] <= data.pae[3]
        /\ TrueExtremes

\* C24: for a non-empty interface the minima and maxima of both triples are
\* the true ones, min <= max, and the average, rounded to one decimal, is
\* within 0.05 of the range: min - 0.05 <= avg <= max + 0.05.
C24_TriplesOrderedUpToRounding ==
    (ipc = "returned" /\ DOMAIN interface # {}) =>
        /\ TrueExtremes
        /\ data.plddt[1] <= data.plddt[3]
        /\ data.pae[1] <= data.pae[3]
        /\ data.plddt[2] % 10 = 0
        /\ data.pae[2] % 10 = 0
        /\ data.plddt[1] - 5 <= data.plddt[2]
        /\ data.plddt[2] <= data.plddt[3] + 5
        /\ data.pae[1] - 5 <= data.pae[2]
        /\ data.pae[2] <= data.pae[3] + 5

\* C24 witness: two contacts whose average error, rounded, is below the
\* smallest error, and whose confidences differ.
C24_Witness ==
    /\ ipc = "returned"
    /\ Cardinality(DOMAIN interface) = 2
    /\ data.pae[2] < data.pae[1]
    /\ data.plddt[1] < data.plddt[3]
    /\ data.plddt[1] > 0

====
